---------------------------- MODULE Spec2Model ----------------------------
(***************************************************************************)
(* The record processing pipeline of src/src/data_processor.py             *)
(* (DataProcessor: load_data, clean_common, filter_by_mode,                *)
(* filter_by_month, remove_duplicates, finalize, process_all) with the     *)
(* field normalisers of src/src/utils.py it calls.                         *)
(*                                                                         *)
(* A string is a sequence of tokens.  Identifier, phone, status and        *)
(* work-zone strings hold one character per token; a timestamp string      *)
(* holds one token per field ("2024", "01", "10:00:00") and one per        *)
(* separator.  A missing cell (NaN) and the two null results (None, NaT)   *)
(* are one-token sequences no text can equal.                              *)
(***************************************************************************)
EXTENDS Integers, Sequences, FiniteSets, TLC

VARIABLES mode, df_raw, df_processed, df_final, stats, call, caller,
          checker, quality, report, held, batch, chunked, runs,
          contact

\* the variables of the processor, of the quality checker, of the batch
\* processor, and all
pvars == <<mode, df_raw, df_processed, df_final, stats, call, caller>>

qvars == <<checker, quality, report, held>>

bvars == <<batch, chunked, runs>>

vars == <<pvars, qvars, bvars, contact>>

---------------------------------------------------------------------------
(* Bounds of the model *)

MaxRows == 2

\* the issues a checker may hold when a single check is called on it
MaxIssues == 2

\* the largest batch size of a batch processor
MaxBatchSize == 2

\* the errors a batch processor may hold when process_chunks is called
MaxErrors == 1

---------------------------------------------------------------------------
(* Null values *)

NaN == <<"<NaN>">>
NoneVal == <<"<None>">>
NaT == <<"<NaT>">>

isna(v) == v \in {NaN, NoneVal, NaT}

\* str(val): a missing float prints as 'nan'
str(v) ==
    IF v = NaN THEN <<"n", "a", "n">>
    ELSE IF v = NoneVal THEN <<"N", "o", "n", "e">>
    ELSE IF v = NaT THEN <<"N", "a", "T">>
    ELSE v

---------------------------------------------------------------------------
(* Python string primitives *)

Whitespace == {" "}

Digits == {"0", "1", "2", "3", "4", "5", "6", "7", "8", "9"}

RECURSIVE lstrip(_)
lstrip(s) ==
    IF s # <<>> /\ Head(s) \in Whitespace THEN lstrip(Tail(s)) ELSE s

RECURSIVE rstrip(_)
rstrip(s) ==
    IF s # <<>> /\ s[Len(s)] \in Whitespace
    THEN rstrip(SubSeq(s, 1, Len(s) - 1))
    ELSE s

strip(s) == rstrip(lstrip(s))

LowerCase ==
    << "a", "b", "c", "d", "e", "f", "g", "h", "i", "j", "k", "l", "m",
       "n", "o", "p", "q", "r", "s", "t", "u", "v", "w", "x", "y", "z" >>

UpperCase ==
    << "A", "B", "C", "D", "E", "F", "G", "H", "I", "J", "K", "L", "M",
       "N", "O", "P", "Q", "R", "S", "T", "U", "V", "W", "X", "Y", "Z" >>

UpperChar(c) ==
    IF \E i \in 1..Len(LowerCase) : LowerCase[i] = c
    THEN UpperCase[CHOOSE i \in 1..Len(LowerCase) : LowerCase[i] = c]
    ELSE c

LowerChar(c) ==
    IF \E i \in 1..Len(UpperCase) : UpperCase[i] = c
    THEN LowerCase[CHOOSE i \in 1..Len(UpperCase) : UpperCase[i] = c]
    ELSE c

upper(s) == [i \in 1..Len(s) |-> UpperChar(s[i])]

lower(s) == [i \in 1..Len(s) |-> LowerChar(s[i])]

startswith(s, p) == Len(s) >= Len(p) /\ SubSeq(s, 1, Len(p)) = p

endswith(s, p) ==
    Len(s) >= Len(p) /\ SubSeq(s, Len(s) - Len(p) + 1, Len(s)) = p

\* p in s
contains(s, p) ==
    \E i \in 1..(Len(s) - Len(p) + 1) : SubSeq(s, i, i + Len(p) - 1) = p

\* re.sub(r'\.0$', '', s) on a string without line breaks
sub_dot_zero(s) ==
    IF endswith(s, <<".", "0">>) THEN SubSeq(s, 1, Len(s) - 2) ELSE s

\* re.sub(r'\D', '', s)
RECURSIVE sub_non_digits(_)
sub_non_digits(s) ==
    IF s = <<>> THEN <<>>
    ELSE IF Head(s) \in Digits
         THEN <<Head(s)>> \o sub_non_digits(Tail(s))
         ELSE sub_non_digits(Tail(s))

\* s.split('_')[0]
RECURSIVE split_first(_, _)
split_first(s, sep) ==
    IF s = <<>> \/ Head(s) = sep THEN <<>>
    ELSE <<Head(s)>> \o split_first(Tail(s), sep)

---------------------------------------------------------------------------
(* src/src/utils.py: string utilities *)

clean_string(val, uppercase) ==
    IF isna(val) THEN <<>>
    ELSE LET stripped == strip(str(val))
             result == sub_dot_zero(stripped)
         IN IF uppercase THEN upper(result) ELSE result

\* the leading 0 dropped, no country code put before the number
normalize_phone_local(phone) ==
    IF isna(phone) \/ strip(str(phone)) = <<>> THEN <<>>
    ELSE LET digits == sub_non_digits(clean_string(phone, FALSE))
         IN IF startswith(digits, <<"0">>) THEN Tail(digits) ELSE digits

normalize_phone(phone) ==
    IF isna(phone) \/ strip(str(phone)) = <<>> THEN <<>>
    ELSE LET digits == sub_non_digits(clean_string(phone, FALSE))
         IN IF startswith(digits, <<"0">>) THEN <<"6", "2">> \o Tail(digits)
            ELSE IF startswith(digits, <<"8">>) THEN <<"6", "2">> \o digits
            ELSE digits

extract_order_id(text) ==
    LET cleaned == clean_string(text, FALSE)
    IN IF contains(cleaned, <<"_">>) THEN split_first(cleaned, "_") ELSE cleaned

---------------------------------------------------------------------------
(* src/src/utils.py: date utilities.  A parsed timestamp is the sequence   *)
(* <<year, month, day, hour:minute, second>> of field tokens.              *)

\* int(token) for the numeric field tokens in use; 0 for any other token
NumOf(tok) ==
    CASE tok = "01" -> 1
      [] tok = "02" -> 2
      [] tok = "03" -> 3
      [] tok = "04" -> 4
      [] tok = "10" -> 10
      [] tok = "13" -> 13
      [] tok = "15" -> 15
      [] tok = "20" -> 20
      [] tok = "25" -> 25
      [] tok = "2024" -> 2024
      [] OTHER -> 0

IsYear(tok) == NumOf(tok) >= 1000

IsMonth(tok) == NumOf(tok) \in 1..12

IsDay(tok) == NumOf(tok) \in 1..31 /\ ~IsYear(tok)

\* the %H:%M:%S and %H:%M field groups
TimesHMS == {"10:00:00"}
TimesHM == {"10:00"}

HourMinute(tok) == IF tok = "10:00:00" THEN "10:00" ELSE tok

Second(tok) == "00"

\* datetime.strptime(s, fmt): the parsed timestamp in a one-element set,
\* or the empty set for ValueError
strptime(s, fmt) ==
    CASE fmt = "%Y-%m-%d %H:%M:%S" ->
            IF Len(s) = 7 /\ IsYear(s[1]) /\ s[2] = "-" /\ IsMonth(s[3])
               /\ s[4] = "-" /\ IsDay(s[5]) /\ s[6] = " " /\ s[7] \in TimesHMS
            THEN {<<s[1], s[3], s[5], HourMinute(s[7]), Second(s[7])>>}
            ELSE {}
      [] fmt = "%d/%m/%Y %H:%M:%S" ->
            IF Len(s) = 7 /\ IsDay(s[1]) /\ s[2] = "/" /\ IsMonth(s[3])
               /\ s[4] = "/" /\ IsYear(s[5]) /\ s[6] = " " /\ s[7] \in TimesHMS
            THEN {<<s[5], s[3], s[1], HourMinute(s[7]), Second(s[7])>>}
            ELSE {}
      [] fmt = "%d/%m/%Y %H:%M" ->
            IF Len(s) = 7 /\ IsDay(s[1]) /\ s[2] = "/" /\ IsMonth(s[3])
               /\ s[4] = "/" /\ IsYear(s[5]) /\ s[6] = " " /\ s[7] \in TimesHM
            THEN {<<s[5], s[3], s[1], s[7], "00">>}
            ELSE {}
      [] fmt = "%m/%d/%Y %H:%M:%S" ->
            IF Len(s) = 7 /\ IsMonth(s[1]) /\ s[2] = "/" /\ IsDay(s[3])
               /\ s[4] = "/" /\ IsYear(s[5]) /\ s[6] = " " /\ s[7] \in TimesHMS
            THEN {<<s[5], s[1], s[3], HourMinute(s[7]), Second(s[7])>>}
            ELSE {}
      [] fmt = "%Y-%m-%d" ->
            IF Len(s) = 5 /\ IsYear(s[1]) /\ s[2] = "-" /\ IsMonth(s[3])
               /\ s[4] = "-" /\ IsDay(s[5])
            THEN {<<s[1], s[3], s[5], "00:00", "00">>}
            ELSE {}
      [] fmt = "%d/%m/%Y" ->
            IF Len(s) = 5 /\ IsDay(s[1]) /\ s[2] = "/" /\ IsMonth(s[3])
               /\ s[4] = "/" /\ IsYear(s[5])
            THEN {<<s[5], s[3], s[1], "00:00", "00">>}
            ELSE {}
      [] fmt = "%m/%d/%Y" ->
            IF Len(s) = 5 /\ IsMonth(s[1]) /\ s[2] = "/" /\ IsDay(s[3])
               /\ s[4] = "/" /\ IsYear(s[5])
            THEN {<<s[5], s[1], s[3], "00:00", "00">>}
            ELSE {}
      [] OTHER -> {}

DateFormats ==
    << "%Y-%m-%d %H:%M:%S", "%d/%m/%Y %H:%M:%S", "%d/%m/%Y %H:%M",
       "%m/%d/%Y %H:%M:%S", "%Y-%m-%d", "%d/%m/%Y", "%m/%d/%Y" >>

\* the first format of the list, from position i on, that parses s
RECURSIVE try_formats(_, _)
try_formats(s, i) ==
    IF i > Len(DateFormats) THEN NoneVal
    ELSE LET r == strptime(s, DateFormats[i])
         IN IF r # {} THEN CHOOSE d \in r : TRUE ELSE try_formats(s, i + 1)

parse_date(date_str) ==
    IF isna(date_str) \/ strip(str(date_str)) = <<>> THEN NoneVal
    ELSE try_formats(sub_dot_zero(strip(str(date_str))), 1)

\* format_date(date_obj, '%d/%m/%Y %H:%M')
format_date(date_obj) ==
    IF isna(date_obj) THEN <<>>
    ELSE <<date_obj[3], "/", date_obj[2], "/", date_obj[1], " ", date_obj[4]>>

\* Series.dt.month of one cell; 0 stands for the NaN of a NaT cell
dt_month(v) == IF isna(v) THEN 0 ELSE NumOf(v[2])

---------------------------------------------------------------------------
(* The record table (a pandas DataFrame): its column names in order, its   *)
(* rows in order (each a function from the column names to cells), and     *)
(* the dtype of the 'Date Created DT' column ("-" while the table has no   *)
(* such column).                                                           *)

None == [isNone |-> TRUE, cols |-> <<>>, rows |-> <<>>, dtype |-> "-"]

DataFrame(cols, rows, dtype) ==
    [isNone |-> FALSE, cols |-> cols, rows |-> rows, dtype |-> dtype]

Range(f) == {f[i] : i \in DOMAIN f}

\* c in df.columns
HasCol(df, c) == c \in Range(df.cols)

\* len(df)
len(df) == Len(df.rows)

\* df[c] = df.apply(F): an existing column keeps its place, a new one is
\* appended
SetCol(df, c, F(_)) ==
    [df EXCEPT
        !.cols = IF HasCol(df, c) THEN @ ELSE Append(@, c),
        !.rows = [i \in 1..Len(@) |->
                    [k \in Range(df.cols) \cup {c} |->
                        IF k = c THEN F(@[i]) ELSE @[i][k]]]]

\* df[mask]
FilterRows(df, Keep(_)) == [df EXCEPT !.rows = SelectSeq(@, Keep)]

\* df.drop(columns=[c for c in drop if c in df.columns])
DropCols(df, drop) ==
    LET keep == SelectSeq(df.cols, LAMBDA c : c \notin drop)
    IN [df EXCEPT
          !.cols = keep,
          !.rows = [i \in 1..Len(@) |-> [k \in Range(keep) |-> @[i][k]]],
          !.dtype = IF "Date Created DT" \in drop THEN "-" ELSE @]

\* self.stats[key] = value
Put(st, key, value) ==
    [k \in DOMAIN st \cup {key} |-> IF k = key THEN value ELSE st[k]]

---------------------------------------------------------------------------
(* src/config/settings.py *)

col_sc == "SC Order No/Track ID/CSRM No"

OutputColumns(m) ==
    IF m = "MODOROSO"
    THEN << "Date Created", "Workorder", col_sc, "Service No.",
            "CRM Order Type", "Status", "Address", "Customer Name",
            "Workzone", "Contact Number", "Mitra" >>
    ELSE IF m \in {"WSA", "WAPPR"}
    THEN << "Date Created", "Workorder", col_sc, "Service No.",
            "CRM Order Type", "Status", "Address", "Customer Name",
            "Workzone", "Booking Date", "Contact Number" >>
    ELSE <<>>

PatternsWSA == { <<"A", "O">>, <<"P", "D", "A">>, <<"W", "S", "A">> }

\* the allow-list with its second category left out
CrmOrderTypesCreateOnly == { <<"C", "R", "E", "A", "T", "E">> }

CrmOrderTypesWSA ==
    { <<"C", "R", "E", "A", "T", "E">>, <<"M", "I", "G", "R", "A", "T", "E">> }

PatternsMODOROSO == { <<"-", "M", "O">>, <<"-", "D", "O">> }

DefaultMitra == <<"T", "S", "E", "L">>

PatternsWAPPR == { <<"A", "O">>, <<"P", "D", "A">> }

StatusFilterWAPPR == { <<"W", "A", "P", "P", "R">> }

\* Series.str.contains('p1|p2|...', case=False) of one cell
contains_any(s, patterns) ==
    \E p \in patterns : contains(upper(s), upper(p))

---------------------------------------------------------------------------
(* src/src/data_processor.py: DataProcessor.  A processor p is the record  *)
(* of its fields df_raw, df_processed, df_final and stats; every stage     *)
(* yields the processor after the call and the exception it raised ("ok"   *)
(* when it returned).                                                      *)

Returned(p) == [p |-> p, exc |-> "ok"]

Raised(p, exc) == [p |-> p, exc |-> exc]

load_data(p, df) ==
    Returned([p EXCEPT
        !.df_raw = df,
        !.stats = Put(Put(@, "raw_rows", len(df)), "raw_columns", Len(df.cols))])

\* The 'Date Created DT' column as pandas stores it: datetime64 with NaT for
\* the unparsed cells when at least one cell parsed, else the object column
\* of None that Series.apply leaves (an empty column stays object as well)
DateCreatedDtype(df) ==
    IF \E i \in 1..len(df) : ~isna(parse_date(df.rows[i]["Date Created"]))
    THEN "datetime64"
    ELSE "object"

DateCreatedDT(row, dtype) ==
    LET d == parse_date(row["Date Created"])
    IN IF isna(d) THEN (IF dtype = "datetime64" THEN NaT ELSE NoneVal) ELSE d

\* df['Booking Date'].astype(str).str.split('.').str[0]
clean_booking_date(df) ==
    IF HasCol(df, "Booking Date")
    THEN SetCol(df, "Booking Date",
                LAMBDA r : split_first(str(r["Booking Date"]), "."))
    ELSE df

with_date_created(df, dtype) ==
    [SetCol(SetCol(df, "Date Created DT", LAMBDA r : DateCreatedDT(r, dtype)),
            "Date Created Display", LAMBDA r : format_date(r["Date Created DT"]))
     EXCEPT !.dtype = dtype]

parse_date_created(df) ==
    IF HasCol(df, "Date Created")
    THEN with_date_created(df, DateCreatedDtype(df))
    ELSE df

clean_contact_number(df) ==
    IF HasCol(df, "Contact Number")
    THEN SetCol(df, "Contact Number",
                LAMBDA r : normalize_phone(r["Contact Number"]))
    ELSE df

clean_sc_order(df) ==
    IF HasCol(df, col_sc)
    THEN SetCol(df, col_sc,
                LAMBDA r : extract_order_id(clean_string(r[col_sc], FALSE)))
    ELSE df

\* self.df_processed = df; self.stats['cleaned_rows'] = len(df)
cleaned(p, df) ==
    Returned([p EXCEPT !.df_processed = df,
                       !.stats = Put(@, "cleaned_rows", len(df))])

clean_common(p) ==
    IF p.df_raw.isNone THEN Raised(p, "ValueError")
    \* str.replace() takes no keyword argument regex: the lambda raises on
    \* the first Workorder cell
    ELSE IF HasCol(p.df_raw, "Workorder") /\ len(p.df_raw) > 0
    THEN Raised(p, "TypeError")
    ELSE cleaned(p, clean_sc_order(clean_contact_number(
                        parse_date_created(clean_booking_date(p.df_raw)))))

\* the last non-empty contact number of customer name among rows
RECURSIVE last_contact(_, _)
last_contact(rows, name) ==
    IF rows = <<>> THEN {}
    ELSE LET r == rows[Len(rows)]
         IN IF r["Customer Name"] = name /\ ~isna(r["Contact Number"])
               /\ r["Contact Number"] # <<>>
            THEN {r["Contact Number"]}
            ELSE last_contact(SubSeq(rows, 1, Len(rows) - 1), name)

\* the first non-empty contact number of customer name among rows
RECURSIVE first_contact(_, _)
first_contact(rows, name) ==
    IF rows = <<>> THEN {}
    ELSE LET r == Head(rows)
         IN IF r["Customer Name"] = name /\ ~isna(r["Contact Number"])
               /\ r["Contact Number"] # <<>>
            THEN {r["Contact Number"]}
            ELSE first_contact(Tail(rows), name)

_fill_contact_number(df) ==
    SetCol(df, "Contact Number",
           LAMBDA r :
             LET val == str(r["Contact Number"])
                 hit == first_contact(df.rows, r["Customer Name"])
             IN IF (isna(r["Contact Number"]) \/ strip(val) = <<>>
                    \/ lower(val) = <<"n", "a", "n">>) /\ hit # {}
                THEN CHOOSE c \in hit : TRUE
                ELSE r["Contact Number"])

\* df[mask] when column c is in the table, else the table as it is
WhereCol(df, c, Keep(_)) == IF HasCol(df, c) THEN FilterRows(df, Keep) ELSE df

fill_contacts(df) ==
    IF HasCol(df, "Contact Number") /\ HasCol(df, "Customer Name")
    THEN _fill_contact_number(df)
    ELSE df

\* the WSA filter matching the codes as they are written
_filter_wsa_cased(df) ==
    [df |-> fill_contacts(
              WhereCol(WhereCol(df, col_sc,
                                LAMBDA r : \E c \in PatternsWSA :
                                              contains(str(r[col_sc]), c)),
                       "CRM Order Type",
                       LAMBDA r : r["CRM Order Type"] \in CrmOrderTypesWSA)),
     exc |-> "ok"]

_filter_wsa(df) ==
    [df |-> fill_contacts(
              WhereCol(WhereCol(df, col_sc,
                                LAMBDA r : contains_any(str(r[col_sc]), PatternsWSA)),
                       "CRM Order Type",
                       LAMBDA r : r["CRM Order Type"] \in CrmOrderTypesWSA)),
     exc |-> "ok"]

\* the markers looked up in the other order
_detect_do_mo(val) ==
    LET s == clean_string(val, TRUE)
    IN IF contains(s, <<"-", "D", "O">>) THEN <<"D", "O">>
       ELSE IF contains(s, <<"-", "M", "O">>) THEN <<"M", "O">>
       ELSE <<"M", "O">>

_detect_mo_do(val) ==
    LET s == clean_string(val, TRUE)
    IN IF contains(s, <<"-", "M", "O">>) THEN <<"M", "O">>
       ELSE IF contains(s, <<"-", "D", "O">>) THEN <<"D", "O">>
       ELSE <<"M", "O">>

\* df['CRM Order Type'] = df[self.col_sc].apply(self._detect_mo_do);
\* df['Mitra'] = 'TSEL'
label_mo_do(df, df_in) ==
    \* df[self.col_sc] of a table without that column raises KeyError
    IF HasCol(df, "CRM Order Type") /\ ~HasCol(df, col_sc)
    THEN [df |-> df_in, exc |-> "KeyError"]
    ELSE [df |-> SetCol(IF HasCol(df, "CRM Order Type")
                        THEN SetCol(df, "CRM Order Type",
                                    LAMBDA r : _detect_mo_do(r[col_sc]))
                        ELSE df,
                        "Mitra", LAMBDA r : DefaultMitra),
          exc |-> "ok"]

_filter_modoroso(df) ==
    label_mo_do(WhereCol(df, col_sc,
                         LAMBDA r : contains_any(str(r[col_sc]), PatternsMODOROSO)),
                df)

\* the WAPPR filter comparing the status as it is written
_filter_wappr_exact(df) ==
    [df |-> WhereCol(WhereCol(df, col_sc,
                              LAMBDA r : contains_any(str(r[col_sc]), PatternsWAPPR)),
                     "Status",
                     LAMBDA r : str(r["Status"]) \in StatusFilterWAPPR),
     exc |-> "ok"]

_filter_wappr(df) ==
    [df |-> WhereCol(WhereCol(df, col_sc,
                              LAMBDA r : contains_any(str(r[col_sc]), PatternsWAPPR)),
                     "Status",
                     LAMBDA r : upper(strip(str(r["Status"])))
                                   \in {upper(x) : x \in StatusFilterWAPPR}),
     exc |-> "ok"]

\* the mode's filter applied to the table
mode_filter(df, m) ==
    IF m = "WSA" THEN _filter_wsa(df)
    ELSE IF m = "MODOROSO" THEN _filter_modoroso(df)
    ELSE IF m = "WAPPR" THEN _filter_wappr(df)
    ELSE [df |-> df, exc |-> "ok"]

\* self.df_processed = df; self.stats['filtered_rows'] = len(df)
mode_filtered(p, r) ==
    IF r.exc # "ok" THEN Raised(p, r.exc)
    ELSE Returned([p EXCEPT !.df_processed = r.df,
                            !.stats = Put(@, "filtered_rows", len(r.df))])

filter_by_mode(p, m) ==
    IF p.df_processed.isNone THEN Raised(p, "ValueError")
    ELSE mode_filtered(p, mode_filter(p.df_processed, m))

\* the counters of the month filter and self.df_processed = df
month_filtered(p, df) ==
    Returned([p EXCEPT
        !.stats = Put(Put(@, "month_filtered_rows", len(df)),
                      "month_filtered_out", len(p.df_processed) - len(df)),
        !.df_processed = df])

filter_by_month(p, months) ==
    IF p.df_processed.isNone THEN Raised(p, "ValueError")
    ELSE IF months = {} THEN Returned(p)
    ELSE IF ~HasCol(p.df_processed, "Date Created DT") THEN Returned(p)
    \* the .dt accessor exists on datetime64 columns only
    ELSE IF p.df_processed.dtype # "datetime64" THEN Raised(p, "AttributeError")
    ELSE month_filtered(p, FilterRows(p.df_processed,
                LAMBDA r : dt_month(r["Date Created DT"]) \in months))

\* check_col=None
DefaultCol == "<None>"

\* check_col, or the mode's key column when it is None
check_column(m, check_col) ==
    IF check_col = DefaultCol
    THEN (IF m \in {"WSA", "WAPPR"} THEN col_sc ELSE "Workorder")
    ELSE check_col

\* the existing IDs compared as they arrive, not cleaned
existing_ids_raw(existing_ids) ==
    {str(existing_ids[i]) : i \in DOMAIN existing_ids}

\* existing_ids_clean = [clean_string(str(x)) for x in existing_ids]
existing_ids_clean(existing_ids) ==
    {clean_string(str(existing_ids[i]), FALSE) : i \in DOMAIN existing_ids}

\* df['__check_val'] = df[check_col].astype(str).str.strip()
check_val(v) == strip(str(v))

\* the deduplication writing its result over the filtered table as well
deduplicated_in_place(p, df) ==
    Returned([p EXCEPT
        !.stats = Put(Put(@, "unique_rows", len(df)),
                      "duplicates_removed", len(p.df_processed) - len(df)),
        !.df_processed = df,
        !.df_final = df])

\* the counters of the deduplication and self.df_final = df
deduplicated(p, df) ==
    Returned([p EXCEPT
        !.stats = Put(Put(@, "unique_rows", len(df)),
                      "duplicates_removed", len(p.df_processed) - len(df)),
        !.df_final = df])

dedupe_on(p, col, ids) ==
    IF ~HasCol(p.df_processed, col)
    THEN Returned([p EXCEPT !.df_final = p.df_processed])
    ELSE deduplicated(p, FilterRows(p.df_processed,
                                    LAMBDA r : check_val(r[col]) \notin ids))

remove_duplicates(p, m, existing_ids, check_col) ==
    IF p.df_processed.isNone THEN Raised(p, "ValueError")
    ELSE dedupe_on(p, check_column(m, check_col), existing_ids_clean(existing_ids))

\* src/src/utils.py
\* the columns left in the order of the table
reorder_columns_kept(df, target_order) == df

reorder_columns(df, target_order) ==
    LET existing_cols == SelectSeq(target_order, LAMBDA c : HasCol(df, c))
        remaining_cols == SelectSeq(df.cols, LAMBDA c : c \notin Range(target_order))
    IN [df EXCEPT !.cols = existing_cols \o remaining_cols]

\* the code points of the characters in use, in ascending order
Alphabet ==
    << " ", "-", ".", "/", "0", "1", "2", "3", "4", "5", "6", "7", "8", "9",
       ":" >> \o UpperCase \o << "_" >> \o LowerCase

ord(c) == CHOOSE i \in 1..Len(Alphabet) : Alphabet[i] = c

\* a < b for two strings
RECURSIVE str_less(_, _)
str_less(a, b) ==
    IF b = <<>> THEN FALSE
    ELSE IF a = <<>> THEN TRUE
    ELSE IF Head(a) = Head(b) THEN str_less(Tail(a), Tail(b))
    ELSE ord(Head(a)) < ord(Head(b))

\* the order of sort_values: ascending, missing values last
cell_less(a, b) ==
    IF isna(a) THEN FALSE ELSE IF isna(b) THEN TRUE ELSE str_less(a, b)

\* row r put into the sorted rows behind every row that is not greater
RECURSIVE insert_sorted(_, _, _)
insert_sorted(rows, r, key) ==
    IF rows = <<>> THEN <<r>>
    ELSE IF cell_less(r[key], Head(rows)[key]) THEN <<r>> \o rows
    ELSE <<Head(rows)>> \o insert_sorted(Tail(rows), r, key)

\* df.sort_values(key); tables this small are sorted by insertion, which
\* keeps the order of equal keys
RECURSIVE sort_rows(_, _)
sort_rows(rows, key) ==
    IF rows = <<>> THEN <<>>
    ELSE insert_sorted(sort_rows(SubSeq(rows, 1, Len(rows) - 1), key),
                       rows[Len(rows)], key)

sort_values(df, key) == [df EXCEPT !.rows = sort_rows(@, key)]

TempCols == {"Date Created DT", "Date Created Display", "__check_val"}

\* df['Date Created'] = df['Date Created Display']
show_date_created(df) ==
    IF HasCol(df, "Date Created Display")
    THEN SetCol(df, "Date Created", LAMBDA r : r["Date Created Display"])
    ELSE df

sorted_by(df, sort_by) ==
    IF HasCol(df, sort_by) THEN sort_values(df, sort_by) ELSE df

\* self.df_final = df; self.stats['final_rows'] = len(df)
finalized(p, df) ==
    Returned([p EXCEPT !.df_final = df,
                       !.stats = Put(@, "final_rows", len(df))])

finalize(p, m, sort_by) ==
    IF p.df_final.isNone THEN Raised(p, "ValueError")
    ELSE finalized(p, sorted_by(DropCols(show_date_created(
                          reorder_columns(p.df_final, OutputColumns(m))),
                          TempCols), sort_by))

\* The stages of the method chain of process_all: each is skipped once an
\* earlier one has raised.
then_clean_common(r) ==
    IF r.exc # "ok" THEN r ELSE clean_common(r.p)

then_filter_by_mode(r, m) ==
    IF r.exc # "ok" THEN r ELSE filter_by_mode(r.p, m)

then_filter_by_month(r, months) ==
    IF r.exc # "ok" THEN r ELSE filter_by_month(r.p, months)

then_remove_duplicates(r, m, existing_ids) ==
    IF r.exc # "ok" THEN r ELSE remove_duplicates(r.p, m, existing_ids, DefaultCol)

then_finalize(r, m) ==
    IF r.exc # "ok" THEN r ELSE finalize(r.p, m, "Workzone")

process_all(p, m, df, months, existing_ids) ==
    then_finalize(
        then_remove_duplicates(
            then_filter_by_month(
                then_filter_by_mode(then_clean_common(load_data(p, df)), m),
                months),
            m, existing_ids),
        m)

\* the stages of process_all in the order of the chain
Stages ==
    << "load_data", "clean_common", "filter_by_mode", "filter_by_month",
       "remove_duplicates", "finalize" >>

\* the stage of process_all(df, months) at position k of the chain, called
\* on the processor p
stage_called(p, m, k, df, months) ==
    CASE Stages[k] = "load_data" -> load_data(p, df)
      [] Stages[k] = "clean_common" -> clean_common(p)
      [] Stages[k] = "filter_by_mode" -> filter_by_mode(p, m)
      [] Stages[k] = "filter_by_month" -> filter_by_month(p, months)
      [] Stages[k] = "remove_duplicates" ->
           remove_duplicates(p, m, <<>>, DefaultCol)
      [] Stages[k] = "finalize" -> finalize(p, m, "Workzone")

---------------------------------------------------------------------------
(* src/src/data_processor.py: BatchProcessor.  A batch processor b is the  *)
(* record of its fields batch_size, results and errors; the processor it   *)
(* drives is passed beside it.  An error entry holds the exception's name  *)
(* where the code holds its message.                                       *)

\* BatchProcessor(processor, batch_size)
BatchProcessor(batch_size) ==
    [batch_size |-> batch_size, results |-> <<>>, errors |-> <<>>]

\* df.iloc[start_idx:end_idx]
iloc(df, start_idx, end_idx) ==
    [df EXCEPT !.rows = SubSeq(@, start_idx + 1, end_idx)]

min(a, b) == IF a <= b THEN a ELSE b

\* (total_rows + self.batch_size - 1) // self.batch_size
num_chunks(total_rows, batch_size) ==
    (total_rows + batch_size - 1) \div batch_size

\* the chunk of the loop's round i
chunk(df, batch_size, i) ==
    iloc(df, i * batch_size, min((i + 1) * batch_size, len(df)))

\* the columns of the tables from position i on that cols lacks, in the
\* order they appear
RECURSIVE concat_cols(_, _, _)
concat_cols(cols, tables, i) ==
    IF i > Len(tables) THEN cols
    ELSE concat_cols(
            cols \o SelectSeq(tables[i].cols, LAMBDA c : c \notin Range(cols)),
            tables, i + 1)

RECURSIVE concat_rows(_, _, _)
concat_rows(cols, tables, i) ==
    IF i > Len(tables) THEN <<>>
    ELSE [k \in 1..len(tables[i]) |->
            [c \in Range(cols) |->
                IF HasCol(tables[i], c) THEN tables[i].rows[k][c] ELSE NaN]]
         \o concat_rows(cols, tables, i + 1)

\* pd.concat(results, ignore_index=True) if results else pd.DataFrame()
concat(results) ==
    DataFrame(concat_cols(<<>>, results, 1),
              concat_rows(concat_cols(<<>>, results, 1), results, 1),
              "-")

\* the state of a process_chunks call: the processor, the local list
\* results and the field errors
Batch(p, results, errors) == [p |-> p, results |-> results, errors |-> errors]

\* the try block of round i, its process_all call evaluated to r
chunk_recorded(s, r, i, rows) ==
    IF r.exc = "ok"
    THEN Batch(r.p, Append(s.results, r.p.df_final), s.errors)
    ELSE Batch(r.p, s.results,
               Append(s.errors, [chunk |-> i + 1, error |-> r.exc, rows |-> rows]))

\* the rounds from i on, given up at the first chunk that fails
RECURSIVE chunks_processed_until_error(_, _, _, _, _, _, _)
chunks_processed_until_error(s, size, m, df, months, existing_ids, i) ==
    IF i >= num_chunks(len(df), size) \/ s.errors # <<>> THEN s
    ELSE chunks_processed_until_error(
            chunk_recorded(
                s,
                process_all(s.p, m, chunk(df, size, i), months, existing_ids),
                i, len(chunk(df, size, i))),
            size, m, df, months, existing_ids, i + 1)

\* the rounds of the loop from i on
RECURSIVE chunks_processed(_, _, _, _, _, _, _)
chunks_processed(s, size, m, df, months, existing_ids, i) ==
    IF i >= num_chunks(len(df), size) THEN s
    ELSE chunks_processed(
            chunk_recorded(
                s,
                process_all(s.p, m, chunk(df, size, i), months, existing_ids),
                i, len(chunk(df, size, i))),
            size, m, df, months, existing_ids, i + 1)

\* self.results = results, and the value returned
chunks_returned(b, s) ==
    [p |-> s.p,
     b |-> [b EXCEPT !.results = s.results, !.errors = s.errors],
     returned |-> concat(s.results)]

process_chunks(b, p, m, df, months, existing_ids) ==
    chunks_returned(
        b, chunks_processed(Batch(p, <<>>, b.errors), b.batch_size, m, df,
                            months, existing_ids, 0))

---------------------------------------------------------------------------
(* src/src/quality_checker.py: DataQualityChecker.  A checker c is the     *)
(* record of its fields df, issues, scores and recommendations; a check    *)
(* yields the checker after the call and the exception it raised.  A       *)
(* number cell is Num(n); a column of numbers and missing cells has a      *)
(* numeric dtype, every other column the dtype object.  A score is the     *)
(* exact fraction num/den in lowest terms; a figure printed or rounded to  *)
(* two decimals is its count of hundredths.                                *)

Num(n) == <<"#", n>>

IsNum(v) == Len(v) = 2 /\ v[1] = "#"

RECURSIVE GCD(_, _)
GCD(a, b) == IF b = 0 THEN a ELSE GCD(b, a % b)

Ratio(n, d) == [num |-> n \div GCD(n, d), den |-> d \div GCD(n, d)]

\* n/d to the nearest whole, halves to the even neighbour
RoundDiv(n, d) ==
    IF 2 * (n % d) < d THEN n \div d
    ELSE IF 2 * (n % d) > d THEN (n \div d) + 1
    ELSE IF (n \div d) % 2 = 0 THEN n \div d
    ELSE (n \div d) + 1

validate_phone(phone) ==
    IF Len(normalize_phone(phone)) < 10 \/ Len(normalize_phone(phone)) > 15
    THEN FALSE
    ELSE startswith(normalize_phone(phone), <<"6", "2">>)

QualityIssue(column, issue_type, severity, message, affected_rows, affected_indices, suggestion) ==
    [column |-> column, issue_type |-> issue_type, severity |-> severity,
     message |-> message, affected_rows |-> affected_rows,
     affected_indices |-> affected_indices, suggestion |-> suggestion]

\* the message f"{count} {text}" and, where pct holds a figure,
\* f"{count} {text} ({pct:.2f}%)"
Message(count, text, pct) == [count |-> count, text |-> text, pct |-> pct]

\* DataQualityChecker(df)
DataQualityChecker(df) ==
    [df |-> df, issues |-> <<>>, scores |-> <<>>, recommendations |-> <<>>]

\* self.df[col]
Column(df, col) == [i \in 1..len(df) |-> df.rows[i][col]]

\* df.index: the table of a checker keeps the default index 0..n-1
Index(df) == [i \in 1..len(df) |-> i - 1]

IsNumeric(df, col) ==
    /\ len(df) > 0
    /\ \A i \in 1..len(df) : df.rows[i][col] = NaN \/ IsNum(df.rows[i][col])

\* the issues of self.issues with the given issue_type
OfType(issues, issue_type) ==
    SelectSeq(issues, LAMBDA i : i.issue_type = issue_type)

\* max(0, 100 - len(issues of the type) * 5)
PenaltyScore(issues, issue_type) ==
    IF Len(OfType(issues, issue_type)) * 5 > 100 THEN Ratio(0, 1)
    ELSE Ratio(100 - Len(OfType(issues, issue_type)) * 5, 1)

null_count(df, col) == Len(SelectSeq(Column(df, col), isna))

null_indices(df, col) ==
    SelectSeq(Index(df), LAMBDA i : isna(df.rows[i + 1][col]))

completeness_issue(df, col) ==
    QualityIssue(col, "completeness",
                 IF null_count(df, col) * 2 > len(df)
                 THEN "critical" ELSE "warning",
                 Message(null_count(df, col), "null values",
                         <<RoundDiv(null_count(df, col) * 10000, len(df))>>),
                 null_count(df, col),
                 null_indices(df, col),
                 <<"Consider filling null values in", col,
                   "or removing rows with missing data">>)

\* the issues the loop over the columns appends
RECURSIVE completeness_issues(_, _)
completeness_issues(df, cols) ==
    IF cols = <<>> THEN <<>>
    ELSE (IF len(df) > 0 /\ null_count(df, Head(cols)) * 10 > len(df)
          THEN <<completeness_issue(df, Head(cols))>>
          ELSE <<>>)
         \o completeness_issues(df, Tail(cols))

\* the cells of the columns that are not null
RECURSIVE non_null_total(_, _)
non_null_total(df, cols) ==
    IF cols = <<>> THEN 0
    ELSE (len(df) - null_count(df, Head(cols)))
         + non_null_total(df, Tail(cols))

\* np.mean(completeness_scores) if completeness_scores else 100
completeness_score(df) ==
    IF df.cols = <<>> \/ len(df) = 0 THEN Ratio(100, 1)
    ELSE Ratio(100 * non_null_total(df, df.cols), len(df) * Len(df.cols))

check_completeness(c) ==
    Returned([c EXCEPT
        !.issues = @ \o completeness_issues(c.df, c.df.cols),
        !.scores = Put(@, "completeness", completeness_score(c.df))])

\* df.duplicated(): a row that equals an earlier row
duplicated(df, i) == \E j \in 1..(i - 1) : df.rows[j] = df.rows[i]

duplicate_indices(df) ==
    SelectSeq(Index(df), LAMBDA i : duplicated(df, i + 1))

uniqueness_issue(df, duplicate_count) ==
    QualityIssue("all", "uniqueness",
                 IF duplicate_count * 5 > len(df)
                 THEN "critical" ELSE "warning",
                 Message(duplicate_count, "duplicate rows",
                         <<RoundDiv(duplicate_count * 10000, len(df))>>),
                 duplicate_count,
                 duplicate_indices(df),
                 <<"Remove duplicate rows to improve data quality">>)

uniqueness_score(df, duplicate_count) ==
    IF len(df) = 0 THEN Ratio(100, 1)
    ELSE Ratio(100 * (len(df) - duplicate_count), len(df))

uniqueness_checked(c, duplicate_count) ==
    Returned([c EXCEPT
        !.issues = IF len(c.df) > 0 /\ duplicate_count * 20 > len(c.df)
                   THEN Append(@, uniqueness_issue(c.df, duplicate_count))
                   ELSE @,
        !.scores = Put(@, "uniqueness",
                       uniqueness_score(c.df, duplicate_count))])

check_uniqueness(c) == uniqueness_checked(c, Len(duplicate_indices(c.df)))

\* str.isupper(): a cased character, and none of them lowercase
isupper(s) ==
    /\ \E i \in 1..Len(s) : s[i] \in Range(UpperCase)
    /\ \A i \in 1..Len(s) : s[i] \notin Range(LowerCase)

islower(s) ==
    /\ \E i \in 1..Len(s) : s[i] \in Range(LowerCase)
    /\ \A i \in 1..Len(s) : s[i] \notin Range(UpperCase)

\* self.df[col].dropna().astype(str)
text_values(df, col) ==
    LET kept == SelectSeq(Column(df, col), LAMBDA v : ~isna(v))
    IN [i \in 1..Len(kept) |-> str(kept[i])]

upper_count(values) == Len(SelectSeq(values, isupper))

lower_count(values) == Len(SelectSeq(values, islower))

mixed_count(values) == Len(values) - upper_count(values) - lower_count(values)

whitespace_count(values) ==
    Len(SelectSeq(values, LAMBDA v : v # strip(v)))

\* the mixed-case check of one column
case_checked(c, col, values) ==
    IF mixed_count(values) > 0 /\ upper_count(values) > 0
       /\ lower_count(values) > 0
    THEN [c EXCEPT !.issues =
            Append(@, QualityIssue(col, "consistency", "warning",
                         Message(0, "Mixed case formatting detected", <<>>),
                         mixed_count(values), <<>>,
                         <<"Standardize case formatting in", col>>))]
    ELSE c

\* the whitespace check of one column.  Its affected_indices takes the
\* whole index by the mask over the non-null values, which raises
\* IndexError when a value is missing, and compares the column with the
\* list of the positions found, which raises ValueError unless every
\* value was found and else gives one truth value (1) a row.
whitespace_checked(c, col, values) ==
    IF whitespace_count(values) = 0 THEN Returned(c)
    ELSE IF Len(values) # len(c.df) THEN Raised(c, "IndexError")
    ELSE IF whitespace_count(values) # len(c.df) THEN Raised(c, "ValueError")
    ELSE Returned([c EXCEPT !.issues =
            Append(@, QualityIssue(col, "consistency", "info",
                         Message(whitespace_count(values),
                                 "values with leading/trailing whitespace",
                                 <<>>),
                         whitespace_count(values),
                         [i \in 1..len(c.df) |-> 1],
                         <<"Trim whitespace in", col>>))])

column_consistency(c, col) ==
    IF Len(text_values(c.df, col)) = 0 THEN Returned(c)
    ELSE whitespace_checked(case_checked(c, col, text_values(c.df, col)),
                            col, text_values(c.df, col))

\* the loop over the object columns, left at the first exception
RECURSIVE columns_consistency(_, _)
columns_consistency(r, cols) ==
    IF cols = <<>> \/ r.exc # "ok" THEN r
    ELSE columns_consistency(column_consistency(r.p, Head(cols)), Tail(cols))

consistency_scored(r) ==
    IF r.exc # "ok" THEN r
    ELSE Returned([r.p EXCEPT !.scores =
            Put(@, "consistency", PenaltyScore(r.p.issues, "consistency"))])

check_consistency(c) ==
    consistency_scored(
        columns_consistency(
            Returned(c),
            SelectSeq(c.df.cols, LAMBDA col : ~IsNumeric(c.df, col))))

invalid_phones(df) ==
    SelectSeq(Index(df), LAMBDA i :
        /\ ~isna(df.rows[i + 1]["Contact Number"])
        /\ strip(str(df.rows[i + 1]["Contact Number"])) # <<>>
        /\ ~validate_phone(str(df.rows[i + 1]["Contact Number"])))

invalid_dates(df) ==
    SelectSeq(Index(df), LAMBDA i :
        /\ ~isna(df.rows[i + 1]["Date Created"])
        /\ strip(str(df.rows[i + 1]["Date Created"])) # <<>>
        /\ parse_date(str(df.rows[i + 1]["Date Created"])) = NoneVal)

OrderPatterns ==
    { <<"A", "O">>, <<"P", "D", "A">>, <<"W", "S", "A">>,
      <<"-", "M", "O">>, <<"-", "D", "O">> }

invalid_orders(df) ==
    SelectSeq(Index(df), LAMBDA i :
        ~\E pattern \in OrderPatterns :
            contains(clean_string(df.rows[i + 1][col_sc], TRUE), pattern))

phones_checked(c) ==
    IF HasCol(c.df, "Contact Number") /\ invalid_phones(c.df) # <<>>
    THEN [c EXCEPT !.issues =
            Append(@, QualityIssue("Contact Number", "validity", "warning",
                         Message(Len(invalid_phones(c.df)),
                                 "invalid phone numbers", <<>>),
                         Len(invalid_phones(c.df)), invalid_phones(c.df),
                         <<"Validate and correct phone number format">>))]
    ELSE c

dates_checked(c) ==
    IF HasCol(c.df, "Date Created") /\ invalid_dates(c.df) # <<>>
    THEN [c EXCEPT !.issues =
            Append(@, QualityIssue("Date Created", "validity", "warning",
                         Message(Len(invalid_dates(c.df)), "invalid dates",
                                 <<>>),
                         Len(invalid_dates(c.df)), invalid_dates(c.df),
                         <<"Validate and correct date format">>))]
    ELSE c

orders_checked(c) ==
    IF HasCol(c.df, col_sc) /\ invalid_orders(c.df) # <<>>
    THEN [c EXCEPT !.issues =
            Append(@, QualityIssue(col_sc, "validity", "info",
                         Message(Len(invalid_orders(c.df)),
                                 "orders without standard pattern", <<>>),
                         Len(invalid_orders(c.df)), invalid_orders(c.df),
                         <<"Verify order number format">>))]
    ELSE c

validity_scored(c) ==
    Returned([c EXCEPT !.scores =
        Put(@, "validity", PenaltyScore(c.issues, "validity"))])

check_validity(c) ==
    validity_scored(orders_checked(dates_checked(phones_checked(c))))

\* the numbers of a column that are not missing, each with its index
number_values(df, col) ==
    LET kept == SelectSeq(Index(df), LAMBDA i : ~isna(df.rows[i + 1][col]))
    IN [k \in 1..Len(kept) |->
          [index |-> kept[k], value |-> df.rows[kept[k] + 1][col][2]]]

RECURSIVE insert_number(_, _)
insert_number(sorted, v) ==
    IF sorted = <<>> THEN <<v>>
    ELSE IF v < Head(sorted) THEN <<v>> \o sorted
    ELSE <<Head(sorted)>> \o insert_number(Tail(sorted), v)

RECURSIVE sort_numbers(_)
sort_numbers(values) ==
    IF values = <<>> THEN <<>>
    ELSE insert_number(sort_numbers(Tail(values)), Head(values).value)

\* four times values.quantile(quarters / 4) of the sorted numbers: the
\* quantile lies at the position (n - 1) * quarters / 4, between two
\* neighbours in proportion
quantile4(sorted, quarters) ==
    LET whole == ((Len(sorted) - 1) * quarters) \div 4
        part == ((Len(sorted) - 1) * quarters) % 4
    IN IF part = 0 THEN 4 * sorted[whole + 1]
       ELSE (4 - part) * sorted[whole + 1] + part * sorted[whole + 2]

\* values[(values < q1 - 1.5 * iqr) | (values > q3 + 1.5 * iqr)], after
\* both sides are multiplied by 8
outliers(values, q1x4, q3x4) ==
    SelectSeq(values, LAMBDA v :
        \/ 8 * v.value < 5 * q1x4 - 3 * q3x4
        \/ 8 * v.value > 5 * q3x4 - 3 * q1x4)

column_outliers(values) ==
    outliers(values, quantile4(sort_numbers(values), 1),
             quantile4(sort_numbers(values), 3))

accuracy_issue(col, values, found) ==
    QualityIssue(col, "accuracy", "warning",
                 Message(Len(found), "potential outliers",
                         <<RoundDiv(Len(found) * 10000, Len(values))>>),
                 Len(found),
                 [k \in 1..Len(found) |-> found[k].index],
                 <<"Review outliers in", col, "for data accuracy">>)

column_accuracy(c, col, values) ==
    IF Len(values) < 10 THEN c
    ELSE IF Len(column_outliers(values)) * 10 > Len(values)
    THEN [c EXCEPT !.issues =
            Append(@, accuracy_issue(col, values, column_outliers(values)))]
    ELSE c

RECURSIVE columns_accuracy(_, _)
columns_accuracy(c, cols) ==
    IF cols = <<>> THEN c
    ELSE columns_accuracy(
            column_accuracy(c, Head(cols), number_values(c.df, Head(cols))),
            Tail(cols))

accuracy_scored(c) ==
    Returned([c EXCEPT !.scores =
        Put(@, "accuracy", PenaltyScore(c.issues, "accuracy"))])

check_accuracy(c) ==
    accuracy_scored(
        columns_accuracy(
            c, SelectSeq(c.df.cols, LAMBDA col : IsNumeric(c.df, col))))

\* the weights of _calculate_overall_score, in hundredths, in the order
\* the method adds them
Weights ==
    << [metric |-> "completeness", weight |-> 25],
       [metric |-> "uniqueness", weight |-> 25],
       [metric |-> "consistency", weight |-> 20],
       [metric |-> "validity", weight |-> 20],
       [metric |-> "accuracy", weight |-> 10] >>

Metrics == {Weights[i].metric : i \in DOMAIN Weights}

\* the sum of the fractions a and b
RatioSum(a, b) == Ratio(a.num * b.den + b.num * a.den, a.den * b.den)

\* total_score after the metrics from position i on, total_weight likewise
RECURSIVE total_score(_, _)
total_score(scores, i) ==
    IF i > Len(Weights) THEN Ratio(0, 1)
    ELSE IF Weights[i].metric \in DOMAIN scores
    THEN RatioSum(Ratio(scores[Weights[i].metric].num * Weights[i].weight,
                        scores[Weights[i].metric].den),
                  total_score(scores, i + 1))
    ELSE total_score(scores, i + 1)

RECURSIVE total_weight(_, _)
total_weight(scores, i) ==
    IF i > Len(Weights) THEN 0
    ELSE (IF Weights[i].metric \in DOMAIN scores THEN Weights[i].weight ELSE 0)
         + total_weight(scores, i + 1)

_calculate_overall_score(c) ==
    IF DOMAIN c.scores = {} \/ total_weight(c.scores, 1) = 0 THEN Ratio(0, 1)
    ELSE Ratio(total_score(c.scores, 1).num,
               total_score(c.scores, 1).den * total_weight(c.scores, 1))

_determine_quality_level(score) ==
    IF score.num >= 90 * score.den THEN "excellent"
    ELSE IF score.num >= 75 * score.den THEN "good"
    ELSE IF score.num >= 60 * score.den THEN "fair"
    ELSE IF score.num >= 40 * score.den THEN "poor"
    ELSE "critical"

IssueTypes ==
    <<"completeness", "uniqueness", "consistency", "validity", "accuracy">>

Recommendation(issue_type) ==
    CASE issue_type = "completeness" ->
           "Fill missing values or consider removing rows with critical missing data"
      [] issue_type = "uniqueness" ->
           "Remove duplicate rows to ensure data uniqueness"
      [] issue_type = "consistency" ->
           "Standardize formatting (case, whitespace) across all text columns"
      [] issue_type = "validity" ->
           "Validate and correct data formats (phone numbers, dates, etc.)"
      [] issue_type = "accuracy" ->
           "Review and verify outlier values for data accuracy"

_generate_recommendations(c) ==
    [c EXCEPT !.recommendations =
        [i \in 1..Len(SelectSeq(IssueTypes,
                        LAMBDA t : OfType(c.issues, t) # <<>>)) |->
            Recommendation(SelectSeq(IssueTypes,
                        LAMBDA t : OfType(c.issues, t) # <<>>)[i])]
        \o (IF "completeness" \in DOMAIN c.scores
               /\ c.scores["completeness"].num < 80 * c.scores["completeness"].den
            THEN <<"Focus on improving data completeness as it affects analysis quality">>
            ELSE <<>>)]

_issues_to_dict(c) ==
    [i \in 1..Len(c.issues) |->
        [column |-> c.issues[i].column,
         issue_type |-> c.issues[i].issue_type,
         severity |-> c.issues[i].severity,
         message |-> c.issues[i].message,
         affected_rows |-> c.issues[i].affected_rows,
         suggestion |-> c.issues[i].suggestion]]

OfSeverity(issues, severity) ==
    SelectSeq(issues, LAMBDA i : i.severity = severity)

\* the dictionary run_all_checks returns, overall_score in hundredths
Result(c, overall_score, checked_at) ==
    [overall_score |-> RoundDiv(overall_score.num * 100, overall_score.den),
     quality_level |-> _determine_quality_level(overall_score),
     total_issues |-> Len(c.issues),
     critical_issues |-> Len(OfSeverity(c.issues, "critical")),
     warning_issues |-> Len(OfSeverity(c.issues, "warning")),
     info_issues |-> Len(OfSeverity(c.issues, "info")),
     scores |-> c.scores,
     issues |-> _issues_to_dict(c),
     recommendations |-> c.recommendations,
     checked_at |-> checked_at]

NoResult == <<>>

\* a check made on the checker of r unless a check before it raised
then_check_completeness(r) ==
    IF r.exc # "ok" THEN r ELSE check_completeness(r.p)

then_check_uniqueness(r) ==
    IF r.exc # "ok" THEN r ELSE check_uniqueness(r.p)

then_check_consistency(r) ==
    IF r.exc # "ok" THEN r ELSE check_consistency(r.p)

then_check_validity(r) ==
    IF r.exc # "ok" THEN r ELSE check_validity(r.p)

then_check_accuracy(r) ==
    IF r.exc # "ok" THEN r ELSE check_accuracy(r.p)

\* the five checks of run_all_checks in their order
all_checked(c) ==
    then_check_accuracy(
        then_check_validity(
            then_check_consistency(
                then_check_uniqueness(
                    then_check_completeness(Returned(c))))))

\* the end of run_all_checks: the recommendations and the result
reported(r, now) ==
    IF r.exc # "ok" THEN [p |-> r.p, exc |-> r.exc, result |-> NoResult]
    ELSE [p |-> _generate_recommendations(r.p), exc |-> "ok",
          result |-> Result(_generate_recommendations(r.p),
                            _calculate_overall_score(r.p), now)]

\* the checks run on top of the issues and scores the checker holds
run_all_checks_kept(c, now) == reported(all_checked(c), now)

\* now: the reading of the clock that becomes checked_at
run_all_checks(c, now) ==
    reported(
        all_checked([c EXCEPT !.issues = <<>>, !.scores = <<>>,
                              !.recommendations = <<>>]),
        now)

---------------------------------------------------------------------------
(* Inputs: the raw tables a caller loads, the month lists, the existing-ID *)
(* feeds and the check columns it passes.                                  *)

SampleRows ==
    << [sc |-> <<"A", "O", "1">>,
        wo |-> <<"W", "1", ".", "0">>,
        date |-> <<"2024", "-", "01", "-", "15", " ", "10:00:00">>,
        crm |-> <<"C", "R", "E", "A", "T", "E">>,
        status |-> <<"W", "A", "P", "P", "R">>,
        name |-> <<"A">>,
        contact |-> <<"0", "8", "1">>,
        zone |-> <<"Z", "2">>],
       [sc |-> <<"A", "O", "1", ".", "0", "_", "b">>,
        wo |-> <<" ", "W", "2">>,
        date |-> <<"20", "/", "02", "/", "2024">>,
        crm |-> <<"M", "I", "G", "R", "A", "T", "E">>,
        status |-> <<" ", "w", "a", "p", "p", "r">>,
        name |-> <<"A">>,
        contact |-> <<>>,
        zone |-> <<"Z", "1">>],
       [sc |-> <<"p", "d", "a", "2">>,
        wo |-> NaN,
        date |-> <<"b", "a", "d">>,
        crm |-> <<"U", "P", "D", "A", "T", "E">>,
        status |-> <<"C", "O", "M", "P">>,
        name |-> <<"B">>,
        contact |-> NaN,
        zone |-> NaN],
       [sc |-> <<"w", "s", "a", "-", "D", "O", "-", "M", "O">>,
        wo |-> <<"W", "3">>,
        date |-> NaN,
        crm |-> <<"C", "R", "E", "A", "T", "E">>,
        status |-> <<"W", "A", "P", "P", "R">>,
        name |-> <<"B">>,
        contact |-> <<"8", "1", "2">>,
        zone |-> <<"Z", "1">>] >>

\* the column a field of a sample row is loaded under
ColumnOf ==
    [sc |-> col_sc, wo |-> "Workorder", date |-> "Date Created",
     crm |-> "CRM Order Type", status |-> "Status", name |-> "Customer Name",
     contact |-> "Contact Number", zone |-> "Workzone", remark |-> "Remark"]

\* the column layouts of the raw tables: the full sheet, the sheet without
\* 'Workorder', one without the identifier columns, one without timestamps
Layouts ==
    { <<"sc", "wo", "date", "crm", "status", "name", "contact", "zone">>,
      <<"sc", "date", "crm", "status", "name", "contact", "zone">>,
      <<"date", "crm", "status", "zone">>,
      <<"sc", "status", "zone">> }

RawRow(sample, layout) ==
    [c \in {ColumnOf[layout[j]] : j \in 1..Len(layout)} |->
        sample[CHOOSE f \in Range(layout) : ColumnOf[f] = c]]

\* the run of n consecutive rows of the sample sheet that starts at row
\* first, the sheet taken cyclically
RawTable(layout, first, n) ==
    DataFrame([j \in 1..Len(layout) |-> ColumnOf[layout[j]]],
              [i \in 1..n |->
                  RawRow(SampleRows[((first + i - 2) % Len(SampleRows)) + 1], layout)],
              "-")

InputTables ==
    { RawTable(layout, first, n) :
        layout \in Layouts, first \in 1..Len(SampleRows), n \in 0..MaxRows }

\* The rows of the scenario sheet: the mode-filter tables of the spec's
\* scenarios 1 and 2 and of the tests, and a row in lower case that holds
\* both markers.
ScenarioRows ==
    << [sc |-> <<"A", "O", "1", "2", "3">>,
        crm |-> <<"C", "R", "E", "A", "T", "E">>,
        date |-> <<"2024", "-", "01", "-", "15", " ", "10:00:00">>,
        remark |-> <<"r">>, zone |-> <<"Z", "2">>],
       [sc |-> <<"O", "T", "H", "E", "R">>,
        crm |-> <<"U", "P", "D", "A", "T", "E">>,
        date |-> NaN,
        remark |-> <<"r">>, zone |-> <<"Z", "1">>],
       [sc |-> <<"P", "D", "A", "4", "5", "6">>,
        crm |-> <<"M", "I", "G", "R", "A", "T", "E">>,
        date |-> <<"20", "/", "02", "/", "2024">>,
        remark |-> NaN, zone |-> <<"Z", "3">>],
       [sc |-> <<"O", "R", "D", "E", "R", "-", "M", "O", "-", "0", "0", "1">>,
        crm |-> <<"C", "R", "E", "A", "T", "E">>,
        date |-> <<"2024", "-", "01", "-", "15">>,
        remark |-> <<"r">>, zone |-> <<"Z", "1">>],
       [sc |-> <<"O", "R", "D", "E", "R", "-", "D", "O", "-", "0", "0", "2">>,
        crm |-> <<"C", "R", "E", "A", "T", "E">>,
        date |-> <<"b", "a", "d">>,
        remark |-> <<"r">>, zone |-> <<"Z", "2">>],
       [sc |-> <<"O", "R", "D", "E", "R", "-", "R", "E", "G">>,
        crm |-> <<"C", "R", "E", "A", "T", "E">>,
        date |-> <<"20", "/", "02", "/", "2024">>,
        remark |-> <<"r">>, zone |-> <<"Z", "3">>],
       [sc |-> <<"w", "s", "a", "-", "d", "o", "-", "m", "o", "_", "x">>,
        crm |-> <<"C", "R", "E", "A", "T", "E">>,
        date |-> NaN,
        remark |-> <<"r">>, zone |-> NaN],
       [sc |-> <<"x", "-", "d", "o">>,
        crm |-> <<"c", "r", "e", "a", "t", "e">>,
        date |-> <<"2024", "-", "01", "-", "15", " ", "10:00:00">>,
        remark |-> <<"r">>, zone |-> <<"Z", "1">>] >>

\* a sheet with a column the output schema does not name, and the sheet of
\* the two columns the mode filters read
ScenarioLayouts ==
    { <<"remark", "date", "sc", "crm", "zone">>, <<"crm", "sc">> }

\* the run of n consecutive rows of the scenario sheet that starts at row
\* first, the sheet taken cyclically
ScenarioTable(layout, first, n) ==
    DataFrame([j \in 1..Len(layout) |-> ColumnOf[layout[j]]],
              [i \in 1..n |->
                  RawRow(ScenarioRows[((first + i - 2) % Len(ScenarioRows)) + 1],
                         layout)],
              "-")

\* the scenarios hold three rows
ScenarioTables ==
    { ScenarioTable(layout, first, n) :
        layout \in ScenarioLayouts, first \in 1..Len(ScenarioRows),
        n \in 0..MaxRows + 1 }

MonthLists == { {}, {1}, {1, 2} }

IdLists ==
    { <<>>,
      << <<"a", "o", "1", " ">> >>,
      << <<" ", "A", "O", "1", " ">>, <<"A", "O", "1", ".", "0">> >> }

CheckCols == {DefaultCol}

SortKeys == {"Workzone"}

Modes == {"WSA", "MODOROSO", "WAPPR"}

\* the table of the columns cols whose cells the function data lists
FromColumns(cols, data) ==
    DataFrame(cols,
              [i \in 1..Len(data[cols[1]]) |->
                  [c \in Range(cols) |-> data[c][i]]],
              "-")

\* tests/test_quality_checker.py: clean_data, dirty_data, poor_data and
\* whitespace_data
clean_data ==
    FromColumns(<<"A", "B", "C">>,
        [A |-> <<Num(1), Num(2), Num(3), Num(4), Num(5)>>,
         B |-> << <<"x">>, <<"y">>, <<"z">>, <<"w">>, <<"v">> >>,
         C |-> <<Num(1), Num(2), Num(3), Num(4), Num(5)>>])

dirty_data ==
    FromColumns(<<"A", "B", "C", "Contact Number", "Date Created">>,
        [c \in {"A", "B", "C", "Contact Number", "Date Created"} |->
            CASE c = "A" -> <<Num(1), Num(2), NaN, Num(4), Num(5), NaN>>
              [] c = "B" -> << <<"x">>, <<"y">>, <<"z">>, <<"x">>, <<"y">>, <<"z">> >>
              [] c = "C" -> <<Num(1), Num(2), Num(3), Num(1000), Num(5), Num(6)>>
              [] c = "Contact Number" ->
                   << <<"0", "8", "1", "2", "3", "4", "5", "6", "7", "8", "9">>,
                      <<"i", "n", "v", "a", "l", "i", "d">>,
                      <<>>,
                      <<"0", "8", "1", "2", "3", "4", "5", "6", "7", "8", "9">>,
                      <<"1", "2", "3">>,
                      <<"0", "8", "1", "9", "8", "7", "6", "5", "4", "3", "2">> >>
              [] c = "Date Created" ->
                   << <<"2024", "-", "01", "-", "15">>,
                      <<"i", "n", "v", "a", "l", "i", "d">>,
                      <<"2024", "-", "02", "-", "20">>,
                      <<"2024", "-", "03", "-", "10">>,
                      <<>>,
                      <<"2024", "-", "04", "-", "25">> >>])

poor_data ==
    FromColumns(<<"A", "B">>,
        [A |-> [i \in 1..10 |-> NaN], B |-> [i \in 1..10 |-> <<"x">>]])

whitespace_data ==
    FromColumns(<<"A", "B">>,
        [A |-> << <<" ", " ", "t", "e", "s", "t", " ", " ">>,
                  <<"h", "e", "l", "l", "o">>,
                  <<" ", " ", "w", "o", "r", "l", "d", " ", " ">> >>,
         B |-> <<Num(1), Num(2), Num(3)>>])

\* ten readings, two of them far from the rest, beside order identifiers
outlier_data ==
    FromColumns(<<"C", col_sc>>,
        [c \in {"C", col_sc} |->
            IF c = "C"
            THEN [i \in 1..10 |->
                    IF i = 4 THEN Num(1000) ELSE IF i = 9 THEN Num(0)
                    ELSE Num(50 + i)]
            ELSE [i \in 1..10 |->
                    IF i = 2 THEN <<"O", "T", "H", "E", "R">>
                    ELSE <<"A", "O", "1">>]])

\* the cells of a text column: plain, padded, upper case, mixed case,
\* missing
TextCells == { <<"x">>, <<" ", "x">>, <<"X">>, <<"X", "y">>, NaN }

\* the one-column tables of up to MaxRows rows over the text cells
TextTables ==
    UNION { { FromColumns(<<"B">>, [B |-> cells]) :
                cells \in [1..n -> TextCells] } : n \in 0..MaxRows }

\* a text column in lower, upper and mixed case
mixed_data ==
    FromColumns(<<"B">>, [B |-> << <<"x">>, <<"X">>, <<"X", "y">> >>])

QualityTables ==
    {clean_data, dirty_data, poor_data, whitespace_data, outlier_data,
     mixed_data} \cup TextTables

\* The rows of the contact sheet: customers A and B with a contact
\* number, a second one, none, a blank one and the text 'nan', and a row of
\* customer A that no mode keeps.
ContactRows ==
    { [sc |-> <<"A", "O", "1">>, name |-> <<"A">>, contact |-> NaN],
      [sc |-> <<"A", "O", "2">>, name |-> <<"A">>,
       contact |-> <<"0", "8", "1", "2">>],
      [sc |-> <<"P", "D", "A", "3">>, name |-> <<"A">>,
       contact |-> <<"8", "1", "3">>],
      [sc |-> <<"O", "T", "H", "E", "R">>, name |-> <<"A">>,
       contact |-> <<"0", "8", "1", "4">>],
      [sc |-> <<"A", "O", "5">>, name |-> <<"B">>, contact |-> <<" ">>],
      [sc |-> <<"A", "O", "6">>, name |-> <<"B">>,
       contact |-> <<"n", "a", "n">>],
      [sc |-> <<"W", "S", "A", "7">>, name |-> <<"B">>,
       contact |-> <<"8", "1", "3">>] }

\* the contact sheets of up to MaxRows + 1 rows
ContactTables ==
    UNION { { DataFrame(<<col_sc, "Customer Name", "Contact Number">>,
                        [i \in 1..n |->
                            RawRow(rows[i], <<"sc", "name", "contact">>)],
                        "-") :
                rows \in [1..n -> ContactRows] } : n \in 0..(MaxRows + 1) }

\* the readings of the clock
Clock == {1, 2}

---------------------------------------------------------------------------
(* The processor as a state machine: the fields of one DataProcessor and   *)
(* call, the call made last with its arguments and the exception it        *)
(* raised ("ok" when it returned).  A processor serves one table: it is    *)
(* constructed, loaded once and then driven through any sequence of stage  *)
(* calls.                                                                  *)

Self ==
    [df_raw |-> df_raw, df_processed |-> df_processed,
     df_final |-> df_final, stats |-> stats]

\* again: the call before it was the same call with the same arguments,
\* and returned
Call(op, exc, months, ids, col) ==
    [op |-> op, exc |-> exc, months |-> months, ids |-> ids, col |-> col,
     again |-> call.exc = "ok" /\ call.op = op /\ call.months = months
               /\ call.ids = ids /\ call.col = col]

NoCall ==
    [op |-> "__init__", exc |-> "ok", months |-> {}, ids |-> <<>>,
     col |-> DefaultCol, again |-> FALSE]

Commit(r) ==
    /\ df_raw' = r.p.df_raw
    /\ df_processed' = r.p.df_processed
    /\ df_final' = r.p.df_final
    /\ stats' = r.p.stats

\* caller: the table object last passed to load_data, process_all or
\* DataQualityChecker, as it was when passed, and the fields of the
\* program that name this very object
NoCaller == [df |-> None, holders |-> {}]

\* the table df stored into field as it is
passed_uncopied(c, df, field) ==
    [df |-> df, holders |-> (IF c.df = df THEN c.holders ELSE {}) \cup {field}]

\* the table df passed and df.copy() stored into field: the copy is a
\* new object, so no field comes to name the caller's table
passed(c, df, field) ==
    [df |-> df, holders |-> IF c.df = df THEN c.holders ELSE {}]

\* the caller's table as the caller reads it: what is written into a
\* field that names the same object is written into the caller's table
Given ==
    IF "df_raw" \in caller.holders THEN df_raw
    ELSE IF "df" \in caller.holders THEN checker.df
    ELSE caller.df

InitProcessor ==
    /\ mode \in Modes
    /\ df_raw = None
    /\ df_processed = None
    /\ df_final = None
    /\ stats = <<>>
    /\ call = NoCall
    /\ caller = NoCaller

\* no quality checker is constructed beside the processor
NoChecker == DataQualityChecker(None)

\* no batch processor is constructed over the processor; no
\* process_chunks call is made
NoBatch == BatchProcessor(0)

\* no process_all run is under way on the processor of a batch processor
NoRuns == <<>>

\* contact: a phone number as given, the results of the first and of the
\* last normalize_phone call of a chain, each call on the result of the
\* one before, and the number of the calls
Contact(given) == [given |-> given, first |-> <<>>, last |-> <<>>, calls |-> 0]

NoContact == Contact(NaN)

NoChunks ==
    [op |-> "__init__", df |-> None, months |-> {}, ids |-> <<>>,
     before |-> <<>>, returned |-> None]

Init ==
    /\ InitProcessor
    /\ checker = NoChecker
    /\ quality = [op |-> "-", exc |-> "ok", again |-> FALSE]
    /\ report = [exc |-> "-", result |-> NoResult]
    /\ held = [result |-> <<>>, shares |-> FALSE]
    /\ batch = NoBatch
    /\ chunked = NoChunks
    /\ runs = NoRuns
    /\ contact = NoContact

\* the call op, evaluated to r, takes effect
Step(r, op, months, ids, col) ==
    /\ Commit(r)
    /\ call' = Call(op, r.exc, months, ids, col)

LoadData(df) ==
    /\ df_raw.isNone
    /\ Step(load_data(Self, df), "load_data", {}, <<>>, DefaultCol)
    /\ caller' = passed(caller, df, "df_raw")
    /\ UNCHANGED <<mode, qvars, bvars, contact>>

CleanCommon ==
    /\ Step(clean_common(Self), "clean_common", {}, <<>>, DefaultCol)
    /\ UNCHANGED <<mode, caller, qvars, bvars, contact>>

FilterByMode ==
    /\ Step(filter_by_mode(Self, mode), "filter_by_mode", {}, <<>>, DefaultCol)
    /\ UNCHANGED <<mode, caller, qvars, bvars, contact>>

FilterByMonth(months) ==
    /\ Step(filter_by_month(Self, months), "filter_by_month", months, <<>>, DefaultCol)
    /\ UNCHANGED <<mode, caller, qvars, bvars, contact>>

RemoveDuplicates(existing_ids, check_col) ==
    /\ Step(remove_duplicates(Self, mode, existing_ids, check_col),
            "remove_duplicates", {}, existing_ids, check_col)
    /\ UNCHANGED <<mode, caller, qvars, bvars, contact>>

Finalize(sort_by) ==
    /\ Step(finalize(Self, mode, sort_by), "finalize", {}, <<>>, DefaultCol)
    /\ UNCHANGED <<mode, caller, qvars, bvars, contact>>

ProcessAll(df, months, existing_ids) ==
    /\ df_raw.isNone
    /\ Step(process_all(Self, mode, df, months, existing_ids),
            "process_all", months, existing_ids, DefaultCol)
    /\ caller' = passed(caller, df, "df_raw")
    /\ UNCHANGED <<mode, qvars, bvars, contact>>

Next ==
    \/ \E df \in InputTables : LoadData(df)
    \/ CleanCommon
    \/ FilterByMode
    \/ \E months \in MonthLists : FilterByMonth(months)
    \/ \E ids \in IdLists, col \in CheckCols : RemoveDuplicates(ids, col)
    \/ \E sort_by \in SortKeys : Finalize(sort_by)
    \/ \E df \in InputTables, months \in MonthLists, ids \in IdLists :
          ProcessAll(df, months, ids)

Spec == Init /\ [][Next]_vars

\* The processor on the scenario tables: loaded once, then cleaned,
\* filtered by mode, deduplicated against an empty feed and finalized in
\* any order.
NextScenario ==
    \/ \E df \in ScenarioTables : LoadData(df)
    \/ CleanCommon
    \/ FilterByMode
    \/ RemoveDuplicates(<<>>, DefaultCol)
    \/ Finalize("Workzone")

SpecScenario == Init /\ [][NextScenario]_vars

\* The processor on the contact sheets: loaded once, then cleaned and
\* filtered by mode in any order.
NextContacts ==
    \/ \E df \in ContactTables : LoadData(df)
    \/ CleanCommon
    \/ FilterByMode

SpecContacts == Init /\ [][NextContacts]_vars

---------------------------------------------------------------------------
(* The quality checker as a state machine: checker holds the fields of one *)
(* DataQualityChecker, quality the call made last on it with the exception *)
(* it raised, and report what the latest run_all_checks call returned      *)
(* ("-" before the first).                                                 *)

NoReport == [exc |-> "-", result |-> NoResult]

\* held: the first report the caller got from run_all_checks and keeps.
\* Its 'scores' is the dictionary self.scores named when the report was
\* built; shares says the checker's scores field still names that object
NotHeld == [result |-> NoResult, shares |-> FALSE]

\* the held report as its holder reads it: a shared scores dictionary
\* shows what the checker's methods have written into it since
Held ==
    IF held.shares THEN [held.result EXCEPT !.scores = checker.scores]
    ELSE held.result

\* run_all_checks gives self.scores a new dictionary before its checks
\* run, so the held report's dictionary keeps what it holds at the call;
\* the first report that is returned is the one the caller holds
held_after(r) ==
    IF held.result = NoResult
    THEN IF r.exc = "ok" THEN [result |-> r.result, shares |-> TRUE]
         ELSE held
    ELSE [result |-> Held, shares |-> FALSE]

InitQuality ==
    /\ InitProcessor
    /\ checker \in {DataQualityChecker(df) : df \in QualityTables}
    /\ quality = [op |-> "__init__", exc |-> "ok", again |-> FALSE]
    /\ report = NoReport
    /\ held = NotHeld
    /\ batch = NoBatch
    /\ chunked = NoChunks
    /\ runs = NoRuns
    /\ contact = NoContact

\* the check op, evaluated to r, takes effect
Check(r, op) ==
    /\ Len(checker.issues) < MaxIssues
    /\ checker' = r.p
    /\ quality' = [op |-> op, exc |-> r.exc, again |-> FALSE]

CheckCompleteness ==
    /\ Check(check_completeness(checker), "check_completeness")
    /\ UNCHANGED <<pvars, report, held, bvars, contact>>

CheckUniqueness ==
    /\ Check(check_uniqueness(checker), "check_uniqueness")
    /\ UNCHANGED <<pvars, report, held, bvars, contact>>

CheckConsistency ==
    /\ Check(check_consistency(checker), "check_consistency")
    /\ UNCHANGED <<pvars, report, held, bvars, contact>>

CheckValidity ==
    /\ Check(check_validity(checker), "check_validity")
    /\ UNCHANGED <<pvars, report, held, bvars, contact>>

CheckAccuracy ==
    /\ Check(check_accuracy(checker), "check_accuracy")
    /\ UNCHANGED <<pvars, report, held, bvars, contact>>

\* again: run_all_checks was called on the checker before
Ran(r) ==
    /\ checker' = r.p
    /\ quality' = [op |-> "run_all_checks", exc |-> r.exc,
                   again |-> report.exc # "-"]
    /\ report' = [exc |-> r.exc, result |-> r.result]
    /\ held' = held_after(r)

RunAllChecks(now) ==
    /\ Ran(run_all_checks(checker, now))
    /\ UNCHANGED <<pvars, bvars, contact>>

NextQuality ==
    \/ CheckCompleteness
    \/ CheckUniqueness
    \/ CheckConsistency
    \/ CheckValidity
    \/ CheckAccuracy
    \/ \E now \in Clock : RunAllChecks(now)

SpecQuality == InitQuality /\ [][NextQuality]_vars

---------------------------------------------------------------------------
(* The batch processor as a state machine: batch holds the fields of one   *)
(* BatchProcessor over the processor, and chunked the process_chunks call  *)
(* made last: its arguments, the errors held before it and the table it    *)
(* returned.                                                               *)

\* the batch sizes a caller constructs the batch processor with
BatchSizes == 1..MaxBatchSize

\* the tables a caller passes: the dated scenario tables of MaxRows rows
\* and more
BatchTables ==
    {df \in ScenarioTables : HasCol(df, "Date Created") /\ len(df) >= MaxRows}

InitBatch ==
    /\ InitProcessor
    /\ checker = NoChecker
    /\ quality = [op |-> "-", exc |-> "ok", again |-> FALSE]
    /\ report = NoReport
    /\ held = NotHeld
    /\ batch \in {BatchProcessor(batch_size) : batch_size \in BatchSizes}
    /\ chunked = NoChunks
    /\ runs = NoRuns
    /\ contact = NoContact

Chunked(r, df, months, existing_ids) ==
    /\ Commit(r)
    /\ batch' = r.b
    /\ chunked' = [op |-> "process_chunks", df |-> df, months |-> months,
                   ids |-> existing_ids, before |-> batch.errors,
                   returned |-> r.returned]

ProcessChunks(df, months, existing_ids) ==
    /\ Len(batch.errors) < MaxErrors
    /\ Chunked(process_chunks(batch, Self, mode, df, months, existing_ids),
               df, months, existing_ids)
    /\ UNCHANGED <<mode, call, caller, qvars, runs, contact>>

NextBatch ==
    \E df \in BatchTables, months \in MonthLists :
        ProcessChunks(df, months, <<>>)

SpecBatch == InitBatch /\ [][NextBatch]_vars

---------------------------------------------------------------------------
(* Chunks run side by side: the process_all calls of the first two chunks  *)
(* of a table, made on the one processor a BatchProcessor holds, advance   *)
(* stage by stage in any order.  runs holds, for each of the two calls,    *)
(* its chunk and months, the position of the stage it calls next, the      *)
(* exception that ended it and the table it returned.                      *)

Run(df, months) ==
    [chunk |-> df, months |-> months, next |-> 1, exc |-> "ok",
     result |-> None]

\* the two calls begin
StartChunks(df, months) ==
    /\ runs = NoRuns
    /\ num_chunks(len(df), batch.batch_size) >= 2
    /\ runs' = << Run(chunk(df, batch.batch_size, 0), months),
                  Run(chunk(df, batch.batch_size, 1), months) >>
    /\ UNCHANGED <<pvars, qvars, batch, chunked, contact>>

\* run t after its next stage, evaluated to r: past the chain when the
\* stage raised, and with the table finalize returned
Advanced(run, r) ==
    [run EXCEPT
        !.next = IF r.exc # "ok" THEN Len(Stages) + 1 ELSE @ + 1,
        !.exc = r.exc,
        !.result = IF r.exc = "ok" /\ run.next = Len(Stages)
                   THEN r.p.df_final ELSE @]

Staged(t, r) ==
    /\ Step(r, Stages[runs[t].next], runs[t].months, <<>>, DefaultCol)
    /\ runs' = [runs EXCEPT ![t] = Advanced(runs[t], r)]

\* the call t makes the next stage call of its chain
RunStage(t) ==
    /\ runs # NoRuns
    /\ runs[t].next <= Len(Stages)
    /\ Staged(t, stage_called(Self, mode, runs[t].next, runs[t].chunk,
                              runs[t].months))
    /\ UNCHANGED <<mode, caller, qvars, batch, chunked, contact>>

NextInterleaved ==
    \/ \E df \in BatchTables, months \in MonthLists : StartChunks(df, months)
    \/ \E t \in {1, 2} : RunStage(t)

SpecInterleaved == InitBatch /\ [][NextInterleaved]_vars

---------------------------------------------------------------------------
(* The caller's table: a caller has a quality checker constructed on a    *)
(* table and its checks run, and then, or with no checker at all, loads   *)
(* a table into the processor and runs the stages.                        *)

FrameTables ==
    { ScenarioTable(layout, 1, MaxRows) : layout \in ScenarioLayouts }

\* DataQualityChecker(df)
Construct(df) ==
    /\ checker = NoChecker
    /\ checker' = DataQualityChecker(df)
    /\ quality' = [op |-> "__init__", exc |-> "ok", again |-> FALSE]
    /\ caller' = passed(caller, df, "df")
    /\ UNCHANGED <<mode, df_raw, df_processed, df_final, stats, call,
                   report, held, bvars, contact>>

\* a checker is constructed and the processor is not yet in use
Checking == ~checker.df.isNone /\ df_raw.isNone

\* the caller turns to the processor
Checked ==
    \/ checker = NoChecker
    \/ quality.op = "run_all_checks" /\ quality.exc = "ok" /\ ~quality.again

NextFrame ==
    \/ \E df \in FrameTables : df_raw.isNone /\ Construct(df)
    \/ Checking /\ CheckCompleteness
    \/ Checking /\ CheckUniqueness
    \/ Checking /\ CheckConsistency
    \/ Checking /\ CheckValidity
    \/ Checking /\ CheckAccuracy
    \/ Checking /\ RunAllChecks(1)
    \/ \E df \in FrameTables : Checked /\ LoadData(df)
    \/ CleanCommon
    \/ FilterByMode
    \/ FilterByMonth({1})
    \/ RemoveDuplicates(<<>>, DefaultCol)
    \/ Finalize("Workzone")

SpecFrame == Init /\ [][NextFrame]_vars

---------------------------------------------------------------------------
(* A processor used again: after a table was loaded and finalized, or    *)
(* processed by process_all, another table is loaded into, or processed   *)
(* by, the same processor.                                                 *)

DatedLayout == <<"remark", "date", "sc", "crm", "zone">>

FirstTable == ScenarioTable(DatedLayout, 1, MaxRows)

NextTable == ScenarioTable(DatedLayout, 3, MaxRows)

\* the processor has returned the table of a run
RunEnded(op) == call.op = op /\ call.exc = "ok" /\ ~call.again

\* load_data on a processor that holds a table, with another table
Reload(df) ==
    /\ RunEnded("finalize")
    /\ df # df_raw
    /\ Step(load_data(Self, df), "load_data", {}, <<>>, DefaultCol)
    /\ caller' = passed(caller, df, "df_raw")
    /\ UNCHANGED <<mode, qvars, bvars, contact>>

\* process_all on a processor that holds a table, with another table
ProcessAgain(df, months) ==
    /\ RunEnded("process_all")
    /\ df # df_raw
    /\ Step(process_all(Self, mode, df, months, <<>>),
            "process_all", months, <<>>, DefaultCol)
    /\ caller' = passed(caller, df, "df_raw")
    /\ UNCHANGED <<mode, qvars, bvars, contact>>

NextReuse ==
    \/ LoadData(FirstTable)
    \/ Reload(NextTable)
    \/ CleanCommon
    \/ FilterByMode
    \/ FilterByMonth({1})
    \/ RemoveDuplicates(<<>>, DefaultCol)
    \/ Finalize("Workzone")
    \/ \E months \in {{}, {1}} : ProcessAll(FirstTable, months, <<>>)
    \/ \E months \in {{}, {1}} : ProcessAgain(NextTable, months)

SpecReuse == Init /\ [][NextReuse]_vars

---------------------------------------------------------------------------
(* Phone numbers: a number is normalised, and its result once more.       *)

MaxPhone == 3

PhoneChars == {"0", "8", "6", "2", " ", "-", "."}

Phones ==
    {NaN} \cup UNION { [1..n -> PhoneChars] : n \in 0..MaxPhone }

InitPhones ==
    /\ InitProcessor
    /\ checker = NoChecker
    /\ quality = [op |-> "-", exc |-> "ok", again |-> FALSE]
    /\ report = NoReport
    /\ held = NotHeld
    /\ batch = NoBatch
    /\ chunked = NoChunks
    /\ runs = NoRuns
    /\ contact \in {Contact(given) : given \in Phones}

Normalized(c, result) ==
    [c EXCEPT !.first = IF c.calls = 0 THEN result ELSE @,
              !.last = result, !.calls = @ + 1]

NormalizePhone ==
    /\ contact.calls < 2
    /\ contact' = Normalized(contact,
                     normalize_phone(IF contact.calls = 0 THEN contact.given
                                     ELSE contact.last))
    /\ UNCHANGED <<pvars, qvars, bvars>>

SpecPhones == InitPhones /\ [][NormalizePhone]_vars

---------------------------------------------------------------------------
(* The scoring of a large table: the five checks have written their       *)
(* scores for a one-column table of ScoredRows rows, and run_all_checks   *)
(* goes on to its overall score, level and report.                        *)

ScoredRows == 10000

MaxNulls == 1

\* the scores of a column of ScoredRows numbers with nulls missing values
\* and dups repeated ones, on which the three penalty checks have found
\* the issues that leave cons, valid and acc.  The issues recorded beside
\* the scores are left out: the overall score and the level read
\* self.scores alone
Scored(nulls, dups, cons, valid, acc) ==
    [completeness |-> Ratio(100 * (ScoredRows - nulls), ScoredRows),
     uniqueness |-> Ratio(100 * (ScoredRows - dups), ScoredRows),
     consistency |-> Ratio(cons, 1),
     validity |-> Ratio(valid, 1),
     accuracy |-> Ratio(acc, 1)]

WrittenScores ==
    { Scored(nulls, (ScoredRows \div 5) * fifths, cons, valid, acc) :
        nulls \in 0..MaxNulls, fifths \in 0..2,
        cons \in {100, 95}, valid \in {100, 95}, acc \in {100, 95} }

InitScores ==
    /\ InitProcessor
    /\ checker \in {[DataQualityChecker(None) EXCEPT !.scores = scores] :
                        scores \in WrittenScores}
    /\ quality = [op |-> "check_accuracy", exc |-> "ok", again |-> FALSE]
    /\ report = NoReport
    /\ held = NotHeld
    /\ batch = NoBatch
    /\ chunked = NoChunks
    /\ runs = NoRuns
    /\ contact = NoContact

\* run_all_checks from its overall score on
Report(now) ==
    /\ Ran(reported(Returned(checker), now))
    /\ UNCHANGED <<pvars, bvars, contact>>

NextScores == \E now \in Clock : Report(now)

SpecScores == InitScores /\ [][NextScores]_vars

---------------------------------------------------------------------------
(* Properties.  call is the call made last; in a step, call' is the call   *)
(* the step makes and the unprimed variables are the processor before it.  *)

\* the counter a stage records when it completes
Completed(stage) ==
    CASE stage = "load_data" -> "raw_rows" \in DOMAIN stats
      [] stage = "clean_common" -> "cleaned_rows" \in DOMAIN stats
      [] stage = "filter_by_mode" -> "filtered_rows" \in DOMAIN stats

\* the stage that must have completed before a stage runs
Upstream ==
    [clean_common |-> "load_data", filter_by_mode |-> "clean_common",
     filter_by_month |-> "filter_by_mode", remove_duplicates |-> "filter_by_mode"]

\* C1: a stage called before its upstream stage has completed (clean_common
\* before load_data, filter_by_mode before clean_common, filter_by_month or
\* remove_duplicates before filter_by_mode) raises ValueError and changes no
\* table and no counter.
StageOrderEnforced ==
    [][(call'.op \in DOMAIN Upstream /\ ~Completed(Upstream[call'.op]))
          => /\ call'.exc = "ValueError"
             /\ UNCHANGED <<df_raw, df_processed, df_final, stats>>]_vars

\* C2: clean_common called after load_data returns without raising; then
\* every Workorder value is the trimmed raw value without its trailing '.0',
\* the table has raw_rows rows, and it has a 'Date Created DT' column when
\* the raw table has a 'Date Created' column.
CleanCommonCompletes ==
    (call.op = "clean_common" /\ ~df_raw.isNone)
       => /\ call.exc = "ok"
          /\ ~df_processed.isNone
          /\ len(df_processed) = stats["raw_rows"]
          /\ HasCol(df_raw, "Workorder") =>
                \A i \in 1..len(df_raw) :
                   df_processed.rows[i]["Workorder"]
                      = clean_string(df_raw.rows[i]["Workorder"], FALSE)
          /\ HasCol(df_raw, "Date Created") => HasCol(df_processed, "Date Created DT")

\* C3: finalize called right after load_data, clean_common and
\* filter_by_mode, remove_duplicates never called, returns the filtered
\* table, and the table has no 'Date Created DT' and no 'Date Created
\* Display' column.
FinalizeAfterFilter ==
    [][(call.op = "filter_by_mode" /\ call.exc = "ok" /\ df_final.isNone
        /\ call'.op = "finalize")
          => /\ call'.exc = "ok"
             /\ ~df_final'.isNone
             /\ len(df_final') = len(df_processed)
             /\ ~HasCol(df_final', "Date Created DT")
             /\ ~HasCol(df_final', "Date Created Display")]_vars

\* C4: after process_all has completed in mode WSA or WAPPR the five
\* counters are recorded and final_rows <= unique_rows <= filtered_rows <=
\* cleaned_rows <= raw_rows.
CountersMonotone ==
    (call.op = "process_all" /\ call.exc = "ok" /\ mode \in {"WSA", "WAPPR"})
       => /\ {"final_rows", "unique_rows", "filtered_rows", "cleaned_rows",
              "raw_rows"} \subseteq DOMAIN stats
          /\ stats["final_rows"] <= stats["unique_rows"]
          /\ stats["unique_rows"] <= stats["filtered_rows"]
          /\ stats["filtered_rows"] <= stats["cleaned_rows"]
          /\ stats["cleaned_rows"] <= stats["raw_rows"]

\* a business key or an existing ID trimmed and without its trailing '.0'
NormalizedKey(v) == clean_string(str(v), FALSE)

\* the existing-ID list with every entry normalized
NormalizedIds(ids) == {NormalizedKey(ids[i]) : i \in DOMAIN ids}

\* the rows of df whose normalized key in column col is not in the
\* normalized existing-ID list
RowsNotIn(df, col, ids) ==
    SelectSeq(df.rows, LAMBDA r : NormalizedKey(r[col]) \notin NormalizedIds(ids))

\* C5: remove_duplicates retains a row iff its key, trimmed and without a
\* trailing '.0', is not in the existing-ID list normalized the same way;
\* unique_rows and duplicates_removed are the retained and removed counts
\* and sum to the row count before the stage.
DedupeByNormalizedKey ==
    [][(call'.op = "remove_duplicates" /\ call'.exc = "ok"
        /\ Completed("filter_by_mode")
        /\ HasCol(df_processed, check_column(mode, call'.col)))
          => /\ df_final'.rows
                   = RowsNotIn(df_processed, check_column(mode, call'.col), call'.ids)
             /\ {"unique_rows", "duplicates_removed"} \subseteq DOMAIN stats'
             /\ stats'["unique_rows"] = len(df_final')
             /\ stats'["unique_rows"] + stats'["duplicates_removed"]
                   = len(df_processed)]_vars

\* the keys in column col of the rows of df
KeysOf(df, col) == {df.rows[i][col] : i \in 1..len(df)}

\* a cleaned business key: a string without surrounding whitespace and
\* without a trailing '.0'
CleanedKey(k) == ~isna(k) /\ k # <<>> /\ NormalizedKey(k) = k

\* C6: when the existing-ID list holds a case- and whitespace-noisy form of
\* a key (as 'ao123 ' of 'AO123') and the table holds a cleaned row with
\* that key, remove_duplicates removes the row.
DedupeIgnoresCaseAndSpace ==
    [][(call'.op = "remove_duplicates" /\ call'.exc = "ok"
        /\ Completed("filter_by_mode")
        /\ HasCol(df_processed, check_column(mode, call'.col)))
          => \A k \in KeysOf(df_processed, check_column(mode, call'.col)) :
                (/\ CleanedKey(k)
                 /\ \E i \in DOMAIN call'.ids : upper(strip(call'.ids[i])) = upper(k))
                   => k \notin KeysOf(df_final', check_column(mode, call'.col))]_vars

\* C6, amended: when the existing-ID list holds a whitespace-noisy form of
\* a key in the same letter case (as 'AO123 ' of 'AO123') and the table
\* holds a cleaned row with that key, remove_duplicates removes the row;
\* entries that match the key only up to letter case (as 'ao123 ') do not
\* remove it.
DedupeIgnoresSpaceOnly ==
    [][(call'.op = "remove_duplicates" /\ call'.exc = "ok"
        /\ HasCol(df_processed, check_column(mode, call'.col)))
          => \A k \in KeysOf(df_processed, check_column(mode, call'.col)) :
                CleanedKey(k)
                   => IF \E i \in DOMAIN call'.ids : strip(call'.ids[i]) = k
                      THEN k \notin KeysOf(df_final', check_column(mode, call'.col))
                      ELSE (\A i \in DOMAIN call'.ids :
                               upper(strip(call'.ids[i])) = upper(k))
                             => k \in KeysOf(df_final', check_column(mode, call'.col))]_vars

\* remove_duplicates has just removed a cleaned row on a whitespace-noisy
\* entry of its key
RemovedOnNoisyEntry ==
    /\ call.op = "remove_duplicates" /\ call.exc = "ok"
    /\ HasCol(df_processed, check_column(mode, call.col))
    /\ \E k \in KeysOf(df_processed, check_column(mode, call.col)) :
          /\ CleanedKey(k)
          /\ \E i \in DOMAIN call.ids : strip(call.ids[i]) = k /\ call.ids[i] # k
          /\ k \notin KeysOf(df_final, check_column(mode, call.col))
          /\ stats["duplicates_removed"] > 0

\* C7: remove_duplicates called twice in a row with the same existing-ID
\* list on an unchanged filtered table: the second call leaves df_final,
\* unique_rows and duplicates_removed as the first call set them.
DedupeIdempotent ==
    [][(/\ call.op = "remove_duplicates" /\ call.exc = "ok"
        /\ call'.op = "remove_duplicates"
        /\ call'.ids = call.ids /\ call'.col = call.col)
          => /\ call'.exc = "ok"
             /\ df_final' = df_final
             /\ stats' = stats]_vars

\* remove_duplicates has just been called a second time with the same
\* existing-ID list, and rows were removed
DedupedTwice ==
    /\ call.op = "remove_duplicates" /\ call.again
    /\ "duplicates_removed" \in DOMAIN stats
    /\ stats["duplicates_removed"] > 0
    /\ len(df_final) > 0

RowsOfMonths(df, months) ==
    SelectSeq(df.rows, LAMBDA r : dt_month(r["Date Created DT"]) \in months)

HoldsCode(s, codes) == \E c \in codes : contains(upper(s), upper(c))

WSACodes == { <<"A", "O">>, <<"P", "D", "A">>, <<"W", "S", "A">> }

\* the rows the WSA rule keeps: a code in the identifier and the category
\* CREATE or MIGRATE
RowsOfWSA(df) ==
    SelectSeq(df.rows,
              LAMBDA r : /\ HoldsCode(str(r[col_sc]), WSACodes)
                         /\ r["CRM Order Type"] \in
                              { <<"C", "R", "E", "A", "T", "E">>,
                                <<"M", "I", "G", "R", "A", "T", "E">> })

\* C11: in mode WSA filter_by_mode keeps exactly the rows whose identifier
\* holds AO, PDA or WSA (letter case ignored) and whose 'CRM Order Type' is
\* CREATE or MIGRATE, and filtered_rows is the number of rows kept.
WSAKeepsCodedCreateMigrate ==
    [][(/\ call'.op = "filter_by_mode" /\ call'.exc = "ok" /\ mode = "WSA"
        /\ HasCol(df_processed, col_sc) /\ HasCol(df_processed, "CRM Order Type"))
          => /\ df_processed'.rows = RowsOfWSA(df_processed)
             /\ stats'["filtered_rows"] = Len(RowsOfWSA(df_processed))]_vars

\* filter_by_mode has just kept a row with a code in lower case and dropped
\* others in mode WSA
WSAFiltered ==
    /\ call.op = "filter_by_mode" /\ call.exc = "ok" /\ mode = "WSA"
    /\ HasCol(df_processed, "CRM Order Type")
    /\ stats["filtered_rows"] < stats["cleaned_rows"]
    /\ \E k \in KeysOf(df_processed, col_sc) : k = lower(k) /\ k # upper(k)

\* the identifiers of the rows of df, in order
IdsOf(df) == [i \in 1..len(df) |-> df.rows[i][col_sc]]

\* the table of scenario 1 has been loaded, and filter_by_mode has just
\* returned in mode WSA
Scenario1Filtered ==
    /\ mode = "WSA"
    /\ \E layout \in ScenarioLayouts : df_raw = ScenarioTable(layout, 1, 3)
    /\ call.op = "filter_by_mode" /\ call.exc = "ok"

\* C12: scenario 1, the rows (AO123, CREATE), (OTHER, UPDATE), (PDA456,
\* MIGRATE) under mode WSA: the first two rows stay, the third is dropped,
\* filtered_rows = 2.
Scenario1KeepsFirstTwo ==
    Scenario1Filtered
       => /\ IdsOf(df_processed)
               = << <<"A", "O", "1", "2", "3">>, <<"O", "T", "H", "E", "R">> >>
          /\ stats["filtered_rows"] = 2

\* C12, amended: scenario 1 under mode WSA keeps the first and the third
\* row (AO123 and PDA456), drops the second (OTHER, UPDATE), and
\* filtered_rows = 2.
Scenario1KeepsFirstAndThird ==
    Scenario1Filtered
       => /\ IdsOf(df_processed)
               = << <<"A", "O", "1", "2", "3">>, <<"P", "D", "A", "4", "5", "6">> >>
          /\ stats["filtered_rows"] = 2

\* scenario 1 has been filtered and its table has two rows
Scenario1Reached == Scenario1Filtered /\ len(df_processed) = 2

\* the rows of df whose identifier holds '-MO' or '-DO', letter case
\* ignored
RowsOfMODOROSO(df) ==
    SelectSeq(df.rows,
              LAMBDA r : HoldsCode(str(r[col_sc]),
                                   { <<"-", "M", "O">>, <<"-", "D", "O">> }))

\* 'MO' when the upper-cased identifier holds '-MO', else 'DO'
CategoryOf(id) ==
    IF contains(upper(str(id)), <<"-", "M", "O">>) THEN <<"M", "O">> ELSE <<"D", "O">>

\* C13: in mode MODOROSO filter_by_mode keeps exactly the rows whose
\* identifier holds '-MO' or '-DO' (letter case ignored), stamps every kept
\* row with Mitra = 'TSEL' and sets its category to 'MO' if the upper-cased
\* identifier holds '-MO', else to 'DO'; of the identifiers ORDER-MO-001,
\* ORDER-DO-002, ORDER-REG the first two are kept, as 'MO' and 'DO'.
MODOROSOKeepsAndLabels ==
    [][(/\ call'.op = "filter_by_mode" /\ call'.exc = "ok" /\ mode = "MODOROSO"
        /\ HasCol(df_processed, col_sc) /\ HasCol(df_processed, "CRM Order Type"))
          => /\ IdsOf(df_processed')
                  = [i \in 1..Len(RowsOfMODOROSO(df_processed)) |->
                        RowsOfMODOROSO(df_processed)[i][col_sc]]
             /\ \A i \in 1..len(df_processed') :
                   /\ df_processed'.rows[i]["Mitra"] = <<"T", "S", "E", "L">>
                   /\ df_processed'.rows[i]["CRM Order Type"]
                         = CategoryOf(df_processed'.rows[i][col_sc])
             /\ (\E layout \in ScenarioLayouts : df_raw = ScenarioTable(layout, 4, 3))
                  => /\ IdsOf(df_processed')
                          = << <<"O", "R", "D", "E", "R", "-", "M", "O", "-", "0", "0", "1">>,
                               <<"O", "R", "D", "E", "R", "-", "D", "O", "-", "0", "0", "2">> >>
                     /\ df_processed'.rows[1]["CRM Order Type"] = <<"M", "O">>
                     /\ df_processed'.rows[2]["CRM Order Type"] = <<"D", "O">>]_vars

\* filter_by_mode has just kept, in mode MODOROSO, a row that holds both
\* markers with '-DO' first, and has dropped a row
MODOROSOFiltered ==
    /\ call.op = "filter_by_mode" /\ call.exc = "ok" /\ mode = "MODOROSO"
    /\ HasCol(df_processed, "CRM Order Type")
    /\ stats["filtered_rows"] < stats["cleaned_rows"]
    /\ \E i \in 1..len(df_processed) :
          /\ df_processed.rows[i][col_sc]
                = <<"w", "s", "a", "-", "d", "o", "-", "m", "o">>
          /\ df_processed.rows[i]["CRM Order Type"] = <<"M", "O">>
          /\ df_processed.rows[i]["Mitra"] = <<"T", "S", "E", "L">>

\* the rows the WAPPR rule keeps: AO or PDA in the identifier and a status
\* that is WAPPR once trimmed and upper-cased
RowsOfWAPPR(df) ==
    SelectSeq(df.rows,
              LAMBDA r : /\ HoldsCode(str(r[col_sc]), { <<"A", "O">>, <<"P", "D", "A">> })
                         /\ upper(strip(str(r["Status"]))) = <<"W", "A", "P", "P", "R">>)

\* C14: in mode WAPPR filter_by_mode keeps exactly the rows whose
\* identifier holds AO or PDA (letter case ignored; WSA alone does not
\* count) and whose Status, trimmed and upper-cased, is 'WAPPR'.
WAPPRKeepsCodedWappr ==
    [][(/\ call'.op = "filter_by_mode" /\ call'.exc = "ok" /\ mode = "WAPPR"
        /\ HasCol(df_processed, col_sc) /\ HasCol(df_processed, "Status"))
          => df_processed'.rows = RowsOfWAPPR(df_processed)]_vars

\* filter_by_mode has just kept, in mode WAPPR, a row whose status is
\* written ' wappr', and has dropped a row
WAPPRFiltered ==
    /\ call.op = "filter_by_mode" /\ call.exc = "ok" /\ mode = "WAPPR"
    /\ HasCol(df_processed, col_sc) /\ HasCol(df_processed, "Status")
    /\ stats["filtered_rows"] < stats["cleaned_rows"]
    /\ \E i \in 1..len(df_processed) :
          df_processed.rows[i]["Status"] = <<" ", "w", "a", "p", "p", "r">>

\* the rows with a category of CREATE or MIGRATE
RowsOfCreateMigrate(df) ==
    SelectSeq(df.rows,
              LAMBDA r : r["CRM Order Type"] \in
                            { <<"C", "R", "E", "A", "T", "E">>,
                              <<"M", "I", "G", "R", "A", "T", "E">> })

\* the rows whose status is WAPPR once trimmed and upper-cased
RowsOfWapprStatus(df) ==
    SelectSeq(df.rows,
              LAMBDA r : upper(strip(str(r["Status"]))) = <<"W", "A", "P", "P", "R">>)

\* C15: filter_by_mode on a cleaned table without the identifier column
\* does not raise in any mode: no row is dropped for its identifier and
\* the rest of the mode's rule is applied (the category and status tests,
\* the recomputed category, the Mitra stamp), also in mode MODOROSO with a
\* 'CRM Order Type' column.
ModeFilterWithoutIdentifier ==
    [][(/\ call'.op = "filter_by_mode" /\ Completed("clean_common")
        /\ ~HasCol(df_processed, col_sc))
          => /\ call'.exc = "ok"
             /\ mode = "WSA" /\ HasCol(df_processed, "CRM Order Type")
                   => len(df_processed') = Len(RowsOfCreateMigrate(df_processed))
             /\ mode = "WAPPR" /\ HasCol(df_processed, "Status")
                   => len(df_processed') = Len(RowsOfWapprStatus(df_processed))
             /\ mode = "MODOROSO"
                   => /\ len(df_processed') = len(df_processed)
                      /\ HasCol(df_processed', "Mitra")]_vars

\* the columns of df that are neither in the mode's target list nor
\* transient, in their order
ExtraCols(df, m) ==
    SelectSeq(df.cols, LAMBDA c : c \notin Range(OutputColumns(m)) /\ c \notin TempCols)

\* C16: the columns of the table finalize returns are the mode's target
\* columns, in target order, followed by the extra columns of the table in
\* their order, and none of 'Date Created DT', 'Date Created Display',
\* '__check_val'.
FinalizeFullSchema ==
    [][(call'.op = "finalize" /\ call'.exc = "ok")
          => df_final'.cols = OutputColumns(mode) \o ExtraCols(df_final, mode)]_vars

\* C16, amended: the columns of the table finalize returns are those of
\* the mode's target columns that the table has, in target order, followed
\* by the extra columns of the table in their order, and none of 'Date
\* Created DT', 'Date Created Display', '__check_val'.
FinalizePresentSchema ==
    [][(call'.op = "finalize" /\ call'.exc = "ok")
          => /\ df_final'.cols
                  = SelectSeq(OutputColumns(mode), LAMBDA c : HasCol(df_final, c))
                       \o ExtraCols(df_final, mode)
             /\ Range(df_final'.cols) \cap TempCols = {}]_vars

\* finalize has just returned a table with target columns in front of an
\* extra column, from a table that held the transient columns
FinalizedWithExtra ==
    /\ call.op = "finalize" /\ call.exc = "ok"
    /\ HasCol(df_processed, "Date Created DT")
    /\ df_final.cols[1] = "Date Created"
    /\ df_final.cols[Len(df_final.cols)] = "Remark"
    /\ len(df_final) > 0

\* the place of an issue type in the order of the five checks
MetricRank(issue_type) ==
    CHOOSE i \in 1..Len(IssueTypes) : IssueTypes[i] = issue_type

\* C17: run_all_checks on a table returns without raising; its issues lie
\* in the order completeness, uniqueness, consistency, validity, accuracy
\* of the checks that found them, and each of the five metrics holds one
\* score between 0 and 100.
RunAllChecksCompletes ==
    quality.op = "run_all_checks" =>
        /\ quality.exc = "ok"
        /\ DOMAIN checker.scores = Metrics
        /\ \A m \in Metrics :
              /\ checker.scores[m].num >= 0
              /\ checker.scores[m].num <= 100 * checker.scores[m].den
        /\ \A i, j \in 1..Len(checker.issues) :
              i < j => MetricRank(checker.issues[i].issue_type)
                         <= MetricRank(checker.issues[j].issue_type)

\* a report without its generation timestamp
SansTimestamp(result) ==
    [k \in DOMAIN result \ {"checked_at"} |-> result[k]]

\* C18: a run_all_checks call on a checker that run_all_checks was called
\* on before ends as the call before it did: it raises the same exception
\* or returns a report equal in every field but checked_at.
RunAllChecksIdempotent ==
    [][(quality'.op = "run_all_checks" /\ report.exc # "-")
          => /\ report'.exc = report.exc
             /\ report.exc = "ok"
                  => SansTimestamp(report'.result) = SansTimestamp(report.result)]_vars

\* run_all_checks has returned a report with issues on a checker it was
\* called on before
RanTwice ==
    /\ quality.op = "run_all_checks" /\ quality.again /\ quality.exc = "ok"
    /\ report.result.total_issues > 0
    /\ report.result.checked_at = 2

\* C19: run_all_checks on the ten-row table whose column A is all null and
\* whose column B is 'x' in every row returns the quality level 'poor' or
\* 'critical'.
PoorTableScoresPoor ==
    (quality.op = "run_all_checks" /\ checker.df = poor_data)
        => /\ quality.exc = "ok"
           /\ report.result.quality_level \in {"poor", "critical"}

\* the number of chunks of size rows that n rows fill: ceil(n / size)
CeilDiv(n, size) ==
    CHOOSE k \in 0..n : k * size >= n /\ (k = 0 \/ (k - 1) * size < n)

\* rows (i - 1) * size + 1 .. min(i * size, n) of df, the i-th run of size
\* consecutive rows
RowsOfChunk(df, size, i) ==
    [k \in 1..((IF i * size <= len(df) THEN i * size ELSE len(df))
                 - (i - 1) * size) |->
        df.rows[(i - 1) * size + k]]

\* the outcome of process_all on the i-th chunk of the last process_chunks
\* call, on a processor that has processed nothing before
ChunkAlone(i) ==
    process_all([df_raw |-> None, df_processed |-> None, df_final |-> None,
                 stats |-> <<>>],
                mode,
                [chunked.df EXCEPT
                    !.rows = RowsOfChunk(chunked.df, batch.batch_size, i)],
                chunked.months, chunked.ids)

\* the chunks of the last call, by number, that succeed and that fail alone
ChunksOk ==
    SelectSeq([i \in 1..CeilDiv(len(chunked.df), batch.batch_size) |-> i],
              LAMBDA i : ChunkAlone(i).exc = "ok")

ChunksFailed ==
    SelectSeq([i \in 1..CeilDiv(len(chunked.df), batch.batch_size) |-> i],
              LAMBDA i : ChunkAlone(i).exc # "ok")

\* the rows of the tables from position j on, table after table
RECURSIVE RowsInOrder(_, _)
RowsInOrder(tables, j) ==
    IF j > Len(tables) THEN <<>>
    ELSE tables[j].rows \o RowsInOrder(tables, j + 1)

\* C20: process_chunks cuts the n rows into ceil(n / batch_size) runs of
\* consecutive rows that cover each row once and processes each run as if
\* alone: results holds, in chunk order, the result of every chunk that
\* succeeds, the table returned holds their rows in that order, and errors
\* gains one entry (chunk number, exception, row count), in chunk order,
\* for every chunk that fails.
ChunksIsolated ==
    chunked.op = "process_chunks" =>
        /\ RowsInOrder(
              [i \in 1..CeilDiv(len(chunked.df), batch.batch_size) |->
                  [rows |-> RowsOfChunk(chunked.df, batch.batch_size, i)]], 1)
             = chunked.df.rows
        /\ batch.results
             = [j \in 1..Len(ChunksOk) |-> ChunkAlone(ChunksOk[j]).p.df_final]
        /\ chunked.returned.rows = RowsInOrder(batch.results, 1)
        /\ batch.errors
             = chunked.before
                 \o [j \in 1..Len(ChunksFailed) |->
                       [chunk |-> ChunksFailed[j],
                        error |-> ChunkAlone(ChunksFailed[j]).exc,
                        rows |-> Len(RowsOfChunk(chunked.df, batch.batch_size,
                                                 ChunksFailed[j]))]]

\* process_chunks has returned rows from a table of three chunks whose
\* second chunk failed
ChunkFailedBetweenOthers ==
    /\ chunked.op = "process_chunks"
    /\ Len(batch.errors) = 1 /\ batch.errors[1].chunk = 2
    /\ Len(batch.results) = 2
    /\ len(batch.results[1]) > 0 /\ len(batch.results[2]) > 0

\* a contact cell that counts as missing
BlankContact(v) ==
    isna(v) \/ strip(str(v)) = <<>> \/ lower(str(v)) = <<"n", "a", "n">>

\* the rows of df the WSA rule keeps when the sheet has no category column
SurvivorsOfWSA(df) ==
    SelectSeq(df.rows, LAMBDA r : HoldsCode(str(r[col_sc]), WSACodes))

\* the positions in rows of the rows of customer name that hold a contact
ContactPositions(rows, name) ==
    {j \in 1..Len(rows) : /\ rows[j]["Customer Name"] = name
                          /\ ~BlankContact(rows[j]["Contact Number"])}

\* the contact row i of rows carries after the backfill: its own, or for a
\* missing one the contact at the least position of its customer
Backfilled(rows, i) ==
    IF BlankContact(rows[i]["Contact Number"])
       /\ ContactPositions(rows, rows[i]["Customer Name"]) # {}
    THEN rows[CHOOSE j \in ContactPositions(rows, rows[i]["Customer Name"]) :
                \A k \in ContactPositions(rows, rows[i]["Customer Name"]) :
                    j <= k]["Contact Number"]
    ELSE rows[i]["Contact Number"]

\* C21: in mode WSA filter_by_mode leaves, in every surviving row with a
\* missing contact whose customer has a contact among the surviving rows,
\* the first such contact in row order; every other surviving row keeps
\* the contact it had.
BackfillFirstWins ==
    [][(/\ call'.op = "filter_by_mode" /\ call'.exc = "ok" /\ mode = "WSA"
        /\ HasCol(df_processed, col_sc)
        /\ HasCol(df_processed, "Contact Number")
        /\ HasCol(df_processed, "Customer Name")
        /\ ~HasCol(df_processed, "CRM Order Type"))
          => /\ len(df_processed') = Len(SurvivorsOfWSA(df_processed))
             /\ \A i \in 1..len(df_processed') :
                  df_processed'.rows[i]["Contact Number"]
                    = Backfilled(SurvivorsOfWSA(df_processed), i)]_vars

\* filter_by_mode has just given a row without a contact the first of two
\* different contacts of its customer, in mode WSA
BackfilledFromFirst ==
    /\ call.op = "filter_by_mode" /\ call.exc = "ok" /\ mode = "WSA"
    /\ len(df_raw) = 3 /\ len(df_processed) = 3
    /\ isna(df_raw.rows[1]["Contact Number"])
    /\ df_processed.rows[1]["Customer Name"] = df_processed.rows[3]["Customer Name"]
    /\ df_processed.rows[1]["Contact Number"] = df_processed.rows[2]["Contact Number"]
    /\ df_processed.rows[1]["Contact Number"] # df_processed.rows[3]["Contact Number"]
    /\ df_processed.rows[1]["Contact Number"] # <<>>

\* the outcome of process_all on the chunk of run t, on a processor that
\* has processed nothing before
RunAlone(t) ==
    process_all([df_raw |-> None, df_processed |-> None, df_final |-> None,
                 stats |-> <<>>],
                mode, runs[t].chunk, runs[t].months, <<>>)

\* C22: when the process_all calls of two chunks on the processor of one
\* BatchProcessor advance stage by stage in any order, each call that has
\* ended has ended as it does alone: with the same exception, or with the
\* same table returned.
InterleavedChunksIsolated ==
    \A t \in DOMAIN runs :
        runs[t].next > Len(Stages)
          => /\ runs[t].exc = RunAlone(t).exc
             /\ runs[t].exc = "ok" => runs[t].result = RunAlone(t).p.df_final

\* C23: the frame of a returned report: once run_all_checks has returned a
\* report, no later operation on the same checker (a direct check or a
\* further run_all_checks) changes what the holder reads in it, its
\* 'scores' and 'recommendations' included
ReportKept ==
    [][held.result # NoResult => Held' = Held]_vars

\* C24: the frame of the caller's input table: load_data and
\* DataQualityChecker store a copy, so no field of the program names the
\* caller's table and the caller reads in it what was passed; only
\* load_data changes df_raw, and no check changes the checker's table
InputTableKept ==
    [][/\ caller'.holders = {}
       /\ Given' = caller'.df
       /\ df_raw' # df_raw => call'.op = "load_data"
       /\ ~checker.df.isNone => checker'.df = checker.df]_vars

\* a table was loaded and finalized into a table other than it, and a
\* checker constructed on a table has recorded an issue and a score
StagesAndChecksRan ==
    /\ call.op = "finalize" /\ call.exc = "ok"
    /\ df_final # df_raw /\ df_processed # df_raw
    /\ caller.df = checker.df /\ caller.df = df_raw /\ len(caller.df) > 0
    /\ Len(checker.issues) > 0 /\ DOMAIN checker.scores # {}

\* the issues a call has appended to the checker's list
Appended == SubSeq(checker'.issues, Len(checker.issues) + 1, Len(checker'.issues))

\* C25: a check_consistency call that returns emits the mixed-case warning
\* for a text column exactly when its non-null values include at least one
\* fully upper-case and at least one fully lower-case value, and writes
\* the score 100 minus 5 a consistency issue on the list, floored at 0
MixedCaseWarned ==
    [][quality'.op = "check_consistency" /\ quality'.exc = "ok"
        => /\ \A col \in Range(checker.df.cols) :
                ~IsNumeric(checker.df, col)
                  => ((\E i \in DOMAIN Appended :
                          /\ Appended[i].column = col
                          /\ Appended[i].issue_type = "consistency"
                          /\ Appended[i].severity = "warning")
                      <=> (/\ upper_count(text_values(checker.df, col)) > 0
                           /\ lower_count(text_values(checker.df, col)) > 0))
           /\ checker'.scores["consistency"]
                = PenaltyScore(checker'.issues, "consistency")]_vars

\* the weighted mean of the scores over the metrics they hold, the weights
\* re-normalised to the metrics present
WeightedMean(scores) ==
    Ratio(total_score(scores, 1).num,
          total_score(scores, 1).den * total_weight(scores, 1))

\* the level the thresholds assign to a score in hundredths
LevelOf(hundredths) ==
    IF hundredths >= 9000 THEN "excellent"
    ELSE IF hundredths >= 7500 THEN "good"
    ELSE IF hundredths >= 6000 THEN "fair"
    ELSE IF hundredths >= 4000 THEN "poor"
    ELSE "critical"

\* C26: a report's overall_score is the weighted mean of its metric scores
\* to two decimals, its quality_level is the level the thresholds assign
\* to that overall_score, and scores of 100 throughout give 100 and
\* 'excellent'
ReportScored ==
    report.result # NoResult
      => /\ report.result.overall_score
              = RoundDiv(WeightedMean(report.result.scores).num * 100,
                         WeightedMean(report.result.scores).den)
         /\ report.result.quality_level = LevelOf(report.result.overall_score)
         /\ (\A m \in Metrics : report.result.scores[m] = Ratio(100, 1))
              => /\ report.result.overall_score = 10000
                 /\ report.result.quality_level = "excellent"

\* C27: normalize_phone is idempotent, and a result that is not empty
\* starts with neither '0' nor '8'
NormalizePhoneIdempotent ==
    /\ contact.calls = 2 => contact.last = contact.first
    /\ contact.calls >= 1 /\ contact.last # <<>>
         => Head(contact.last) \notin {"0", "8"}

\* a number with a leading 0 and one with a leading 8, each between
\* other characters, normalised twice
NormalizedTwice ==
    /\ contact.calls = 2
    /\ contact.given \in { <<" ", "0", "8">>, <<"8", "-", "0">> }
    /\ contact.first \in { <<"6", "2", "8">>, <<"6", "2", "8", "0">> }

\* the order identifiers in the rows of a table
OrderIds(df) ==
    IF df.isNone \/ ~HasCol(df, col_sc) THEN {}
    ELSE {df.rows[i][col_sc] : i \in 1..len(df)}

\* the order identifiers in the rows of a table as clean_common cleans
\* them
CleanedIds(df) ==
    IF df.isNone \/ ~HasCol(df, col_sc) THEN {}
    ELSE {extract_order_id(clean_string(df.rows[i][col_sc], FALSE)) :
            i \in 1..len(df)}

Stage(op) == \E k \in 2..Len(Stages) : Stages[k] = op

\* C28: on a processor used again, a stage that returns after load_data of
\* a new table has worked on rows of that table only: the table it leaves
\* (df_final for remove_duplicates and finalize, df_processed for the
\* stages before them) holds no order that is not of df_raw
StagesOnLoadedTable ==
    [][Stage(call'.op) /\ call'.exc = "ok" /\ call' # call
        => IF call'.op \in {"remove_duplicates", "finalize"}
           THEN OrderIds(df_final') \subseteq CleanedIds(df_raw')
           ELSE OrderIds(df_processed') \subseteq CleanedIds(df_raw')]_vars

Fresh == [df_raw |-> None, df_processed |-> None, df_final |-> None, stats |-> <<>>]

\* C29: after a completed process_all the statistics are those of this
\* run: the counters a new processor has after the same call
StatsOfThisRun ==
    call.op = "process_all" /\ call.exc = "ok"
      => stats = process_all(Fresh, mode, caller.df, call.months, call.ids).p.stats

\* the metric a direct check writes
MetricOf(op) ==
    CASE op = "check_consistency" -> "consistency"
      [] op = "check_validity" -> "validity"
      [] op = "check_accuracy" -> "accuracy"

\* C30: direct calls of check_consistency, check_validity and
\* check_accuracy, in any number and order: a call that returns writes the
\* score the metric had from the call before, and the list of issues
\* holds no issue twice
DirectChecksRepeatable ==
    [][quality'.op \in {"check_consistency", "check_validity", "check_accuracy"}
       /\ quality'.exc = "ok"
        => /\ MetricOf(quality'.op) \in DOMAIN checker.scores
                => checker'.scores[MetricOf(quality'.op)]
                     = checker.scores[MetricOf(quality'.op)]
           /\ \A i, j \in DOMAIN checker'.issues :
                checker'.issues[i] = checker'.issues[j] => i = j]_vars

===========================================================================
